---- MODULE Spec2Model ----
(***************************************************************************)
(* A model of LysioDB's Calculations class (src/LysioDB/calculations.py):  *)
(* the IPF weight solver weights_test, the percentage aggregator           *)
(* percentages with its ranking branch, the index aggregator index with    *)
(* _correlate, and the engagement aggregator eni with _eni_percentage.     *)
(*                                                                         *)
(* Floating-point numbers are modelled as exact non-negative rationals     *)
(* <<n, d>> in lowest terms, extended with the two IEEE values the code    *)
(* can produce from them: Inf == <<1, 0>> and NaN == <<0, 0>>.  Polars'    *)
(* null is the value Null.  Rounding error is not modelled.                *)
(***************************************************************************)
EXTENDS Integers, Sequences, FiniteSets, TLC

(***************************************************************************)
(* Bounds of the model.                                                    *)
(***************************************************************************)
\* number of respondents in the survey table used by weights_test
NRows == 3
\* number of calibration dimensions (len(df_columns) = len(target_columns))
NDims == 2
\* largest population count of one cell of the target table
MaxPop == 1
\* weights whose numerator or denominator exceeds this are not explored
MaxNum == 40
\* number of iterations of weights_test that are followed
MaxIter == 3
\* number of respondents in the table the aggregators read
NResp == 2
\* largest respondent weight in the table the aggregators read
MaxWeight == 2
\* the largest config.MINIMUM_COUNT tried
MaxMinimumCount == 3
\* largest number of answers per value in a stored percentage table
MaxStoredCount == 1

(***************************************************************************)
(* Numbers.                                                                *)
(***************************************************************************)
\* null is the empty tuple, so that it compares with every number
Null == <<>>
NaN == <<0, 0>>
Inf == <<1, 0>>
Zero == <<0, 1>>
One == <<1, 1>>

RECURSIVE GCD(_, _)
GCD(a, b) == IF b = 0 THEN a ELSE GCD(b, a % b)

Norm(x) ==
    LET g == GCD(x[1], x[2])
    IN  IF g = 0 THEN NaN ELSE <<x[1] \div g, x[2] \div g>>

Num(k) == <<k, 1>>
IsNaN(x) == x = NaN
IsFinite(x) == x[2] # 0

\* IEEE multiplication: 0 * inf = NaN, NaN absorbs
FMul(x, y) == Norm(<<x[1] * y[1], x[2] * y[2]>>)
\* IEEE division: 0 / 0 = NaN, t / 0 = inf for t > 0
FDiv(x, y) == Norm(<<x[1] * y[2], x[2] * y[1]>>)
\* IEEE addition: inf + inf = inf
FAdd(x, y) ==
    IF x = Inf /\ y = Inf THEN Inf
    ELSE Norm(<<x[1] * y[2] + y[1] * x[2], x[2] * y[2]>>)
\* x - y for x >= y
FSub(x, y) == Norm(<<x[1] * y[2] - y[1] * x[2], x[2] * y[2]>>)
\* |x - y|: inf - inf = NaN
FAbsDiff(x, y) ==
    LET n == x[1] * y[2] - y[1] * x[2]
    IN  IF x = Inf /\ y = Inf THEN NaN
        ELSE Norm(<<IF n < 0 THEN 0 - n ELSE n, x[2] * y[2]>>)
\* x < y; false when either side is NaN (x >= y[1] >= y is decided first)
FLess(x, y) ==
    /\ ~IsNaN(x) /\ ~IsNaN(y)
    /\ x # Inf
    /\ (y = Inf \/ (x[1] < x[2] * y[1] /\ x[1] * y[2] < y[1] * x[2]))

\* Expr.fill_nan(v)
fill_nan(x, v) == IF x # Null /\ IsNaN(x) THEN v ELSE x
\* Expr.fill_null(v)
fill_null(x, v) == IF x = Null THEN v ELSE x

RECURSIVE FSum(_)
FSum(s) == IF s = <<>> THEN Zero ELSE FAdd(Head(s), FSum(Tail(s)))

\* Series.max(): NaN is ignored unless every value is NaN
RECURSIVE SeriesMax(_)
SeriesMax(s) ==
    IF Len(s) = 1 THEN Head(s)
    ELSE LET m == SeriesMax(Tail(s))
         IN  IF IsNaN(Head(s)) THEN m
             ELSE IF IsNaN(m) THEN Head(s)
             ELSE IF FLess(m, Head(s)) THEN Head(s) ELSE m

\* the orders in which group_by may list the groups of a key set
Orderings(S) ==
    {s \in [1..Cardinality(S) -> S] : \A i, j \in 1..Cardinality(S) : s[i] = s[j] => i = j}

(***************************************************************************)
(* State.                                                                  *)
(***************************************************************************)
VARIABLES
    df,                \* database.df: the respondent table
    target_df,         \* the melted population table read from file_name
    target_marginals,  \* per dimension, the grouped target populations
    weight_df,         \* the working copy carrying the weight column
    prev_weights,      \* weight column at the start of the iteration
    adj_df,            \* adjustment table of the sweep just made, with its key column
    iteration,         \* loop variable of "for iteration in range(max_iterations)"
    col,               \* position in zip(df_columns, target_columns) of the next sweep
    weight_diff,       \* max absolute weight change of the last full iteration
    converged,
    report,            \* what the final print reports
    pc,                \* position in the method that is running
    config,            \* database.config
    args,              \* arguments of the aggregator call
    use_weights,
    group_i,           \* position in question_groups
    cat_i,             \* position in category_cols
    results_for_this_group_list,
    percentage_results_list,
    final_results_df,  \* the pivoted table percentages() returns
    percentage_df,     \* database.percentage_df
    df_clean,          \* index(): the private copy with flags and replaced codes
    category_i,        \* index(): position in database.categories
    results_list,      \* index(): the tables of the categories done so far
    index_df,          \* database.index_df
    eni_df,            \* database.eni_df
    eni_percentage_df, \* database.eni_percentage_df
    question_df,       \* database.question_df grouped by (base_question, question_type)
    ranking_results,   \* _calculate_ranking_metrics: all_category_ranking_dfs
    ranked_df,         \* database.ranked_df
    correlation_df,    \* database.correlation_df
    correlate_df       \* database.correlate_df

\* locals of weights_test
ipfVars == <<target_df, target_marginals, weight_df, prev_weights, adj_df,
             iteration, col, weight_diff, converged, report>>
\* locals and results of percentages
pctVars == <<use_weights, group_i, cat_i, results_for_this_group_list,
             percentage_results_list, final_results_df, percentage_df>>
\* inputs of the aggregators
inVars == <<config, args, question_df>>

\* locals and result of index
idxVars == <<df_clean, category_i, results_list, index_df>>

\* results of eni
eniVars == <<eni_df, eni_percentage_df>>

\* locals and result of the ranking branch of percentages
rankVars == <<ranking_results, ranked_df>>

\* results of _correlate
corVars == <<correlation_df, correlate_df>>

vars == <<df, pc, ipfVars, pctVars, inVars, idxVars, eniVars, rankVars, corVars>>

(***************************************************************************)
(* weights_test: iterative proportional fitting.                           *)
(***************************************************************************)
max_iterations == 1000
tolerance == <<1, 1000000>>

Dims == 1..NDims
Cats == {"a", "b"}
\* value of the weight field of a table that has no weight column
NoColumn == <<-1>>

\* the cells (one category value per dimension) of the target table
Cells == [Dims -> Cats]

\* seq as the set of its elements
Range(s) == {s[i] : i \in DOMAIN s}

\* sum of f over a finite set of cells
RECURSIVE CellSum(_, _)
CellSum(f, S) ==
    IF S = {} THEN 0
    ELSE LET c == CHOOSE x \in S : TRUE IN f[c] + CellSum(f, S \ {c})

\* target_df.group_by(target_col).agg(population.sum()), groups listed in `order`
TargetMarginal(tdf, d, order) ==
    [i \in DOMAIN order |->
        [key |-> order[i],
         population |-> CellSum(tdf, {c \in Cells : c[d] = order[i]})]]

\* weight_df.group_by(col_mapped).agg(weight.sum()), groups listed in `order`
GroupWeights(wdf, d, order) ==
    [i \in DOMAIN order |->
        [key |-> order[i],
         weight |-> FSum(LET sel == SelectSeq(wdf, LAMBDA r : r.mapped[d] = order[i])
                         IN  [j \in DOMAIN sel |-> sel[j].weight])]]

\* LazyFrame.drop_nans(): groups whose weight sum is NaN are removed
drop_nans(groups) == SelectSeq(groups, LAMBDA g : ~IsNaN(g.weight))

\* (target / weight).fill_nan(1.0).fill_null(1.0)
Factor(target, weight) == fill_null(fill_nan(FDiv(Num(target), weight), One), One)

\* pl.DataFrame({col_mapped: current keys, weight: current sums, target: target
\* populations}): the three lists are put side by side by position
AdjDf(d, current, targets) ==
    [column |-> d,
     rows |-> [i \in DOMAIN current |->
                 [key |-> current[i].key,
                  weight |-> current[i].weight,
                  target |-> targets[i].population,
                  factor |-> Factor(targets[i].population, current[i].weight)]]]

\* left join of the rows on col_mapped: one output row per matching adj_df row,
\* one row with a null factor when nothing matches; left order is kept
RECURSIVE LeftJoin(_, _, _)
LeftJoin(rows, adj, d) ==
    IF rows = <<>> THEN <<>>
    ELSE LET r == Head(rows)
             m == SelectSeq(adj.rows, LAMBDA a : a.key = r.mapped[d])
             out == IF m = <<>>
                    THEN << [row |-> r, factor |-> Null] >>
                    ELSE [j \in DOMAIN m |-> [row |-> r, factor |-> m[j].factor]]
         IN  out \o LeftJoin(Tail(rows), adj, d)

\* weight * factor.fill_null(1.0), then drop("factor")
ApplyFactors(joined) ==
    [i \in DOMAIN joined |->
        [joined[i].row EXCEPT !.weight = FMul(@, fill_null(joined[i].factor, One))]]

WeightColumn(wdf) == [i \in DOMAIN wdf |-> wdf[i].weight]

\* a weight the model follows further: special values, or a small fraction
Representable(x) == ~IsFinite(x) \/ (x[1] <= MaxNum /\ x[2] <= MaxNum)

\* the working table stored whole, with its mapped columns
StoreWeightsWhole(d, wdf) == wdf

\* database.df.with_columns(weight_df["weight"].alias("weight"))
StoreWeights(d, wdf) == [i \in DOMAIN d |-> [d[i] EXCEPT !.weight = wdf[i].weight]]

\* the variables of weights_test before any call
IPFIdle ==
    /\ target_df = <<>>
    /\ target_marginals = <<>>
    /\ weight_df = <<>>
    /\ prev_weights = <<>>
    /\ adj_df = [column |-> 0, rows |-> <<>>]
    /\ iteration = 0
    /\ col = 1
    /\ weight_diff = Null
    /\ converged = FALSE
    /\ report = Null

\* the clone is the table database.df itself: what is written to the copy is
\* written to database.df
DfSharedWithClone(d, copy) == copy
\* database.df.clone() (lines 234, 1098, 1739): the table database.df refers to
\* once the flags and the replaced codes have been written to the copy
DfAfterClone(d, copy) == d

\* database.percentage_df and database.eni_percentage_df while no table has
\* been stored in them
NoTable == {}

\* the variables of percentages before any call
PctIdle ==
    /\ use_weights = FALSE
    /\ group_i = 1
    /\ cat_i = 1
    /\ results_for_this_group_list = <<>>
    /\ percentage_results_list = <<>>
    /\ final_results_df = Null
    /\ percentage_df = NoTable

\* the variables of index before any call
IdxIdle ==
    /\ df_clean = <<>>
    /\ category_i = 1
    /\ results_list = <<>>
    /\ index_df = Null

\* the results of eni before any call
EniIdle ==
    /\ eni_df = Null
    /\ eni_percentage_df = NoTable

\* the results of the ranking branch before any call
RankIdle ==
    /\ ranking_results = <<>>
    /\ ranked_df = <<>>

\* the results of _correlate before any call
CorIdle ==
    /\ correlation_df = <<>>
    /\ correlate_df = <<>>

InitIPF ==
    /\ \E cats \in [1..NRows -> [Dims -> Cats]], hasWeight \in BOOLEAN :
          df = [i \in 1..NRows |->
                  [id |-> i, dim |-> cats[i],
                   weight |-> IF hasWeight THEN Num(2) ELSE NoColumn]]
    /\ target_df \in [Cells -> 0..MaxPop]
    /\ CellSum(target_df, Cells) > 0
    /\ target_marginals = <<>>
    /\ weight_df = <<>>
    /\ prev_weights = <<>>
    /\ adj_df = [column |-> 0, rows |-> <<>>]
    /\ iteration = 0
    /\ col = 1
    /\ weight_diff = Null
    /\ converged = FALSE
    /\ report = Null
    /\ pc = "idle"
    /\ PctIdle
    /\ IdxIdle
    /\ EniIdle
    /\ RankIdle
    /\ CorIdle
    /\ config = Null /\ args = Null /\ question_df = <<>>

\* lines 25-55: targets, mapped columns, unit weights, target marginals, and the
\* first iteration's prev_weights
Begin ==
    /\ pc = "idle"
    /\ weight_df' = [i \in DOMAIN df |->
                       [id |-> df[i].id, dim |-> df[i].dim, mapped |-> df[i].dim,
                        weight |-> One]]
    /\ \E orders \in [Dims -> Orderings(Cats)] :
          target_marginals' = [d \in Dims |-> TargetMarginal(target_df, d, orders[d])]
    /\ prev_weights' = [i \in DOMAIN df |-> One]
    /\ iteration' = 0
    /\ col' = 1
    /\ converged' = FALSE
    /\ pc' = "sweep"
    /\ UNCHANGED <<df, target_df, adj_df, weight_diff, report>>
    /\ UNCHANGED <<pctVars, inVars, rankVars, corVars, idxVars, eniVars>>

\* lines 57-93: the sweep of one dimension
Sweep ==
    /\ pc = "sweep"
    /\ \E order \in Orderings({weight_df[i].mapped[col] : i \in DOMAIN weight_df}) :
          LET current_marginals == drop_nans(GroupWeights(weight_df, col, order))
              adj == AdjDf(col, current_marginals, target_marginals[col])
              new == ApplyFactors(LeftJoin(weight_df, adj, col))
          IN  /\ Len(current_marginals) = Len(target_marginals[col])
              /\ \A i \in DOMAIN new : Representable(new[i].weight)
              /\ adj_df' = adj
              /\ weight_df' = new
    /\ IF col < NDims
       THEN col' = col + 1 /\ pc' = "sweep"
       ELSE col' = 1 /\ pc' = "check"
    /\ UNCHANGED <<df, target_df, target_marginals, prev_weights, iteration,
                   weight_diff, converged, report>>
    /\ UNCHANGED <<pctVars, inVars, rankVars, corVars, idxVars, eniVars>>

\* lines 66-71: the three lists differ in length and pl.DataFrame raises
SweepShapeError ==
    /\ pc = "sweep"
    /\ \E order \in Orderings({weight_df[i].mapped[col] : i \in DOMAIN weight_df}) :
          Len(drop_nans(GroupWeights(weight_df, col, order))) # Len(target_marginals[col])
    /\ pc' = "raised"
    /\ UNCHANGED <<df, target_df, target_marginals, weight_df, prev_weights, adj_df,
                   iteration, col, weight_diff, converged, report>>
    /\ UNCHANGED <<pctVars, inVars, rankVars, corVars, idxVars, eniVars>>

\* line 95
WeightDiff(wdf, prev) ==
    SeriesMax([i \in DOMAIN wdf |-> FAbsDiff(wdf[i].weight, prev[i])])

\* lines 54-55 and 95-98: the convergence test that ends an iteration; below the
\* tolerance it breaks, otherwise the loop goes on while range(max_iterations)
\* lasts (the model follows the first MaxIter iterations)
Check ==
    /\ pc = "check"
    /\ weight_diff' = WeightDiff(weight_df, prev_weights)
    /\ IF FLess(WeightDiff(weight_df, prev_weights), tolerance)
       THEN /\ converged' = TRUE
            /\ pc' = "report"
            /\ UNCHANGED <<iteration, prev_weights>>
       ELSE IF iteration + 1 < max_iterations
       THEN /\ iteration + 1 < MaxIter
            /\ iteration' = iteration + 1
            /\ prev_weights' = WeightColumn(weight_df)
            /\ pc' = "sweep"
            /\ UNCHANGED converged
       ELSE /\ pc' = "report"
            /\ UNCHANGED <<iteration, prev_weights, converged>>
    /\ UNCHANGED <<df, target_df, target_marginals, weight_df, adj_df, col, report>>
    /\ UNCHANGED <<pctVars, inVars, rankVars, corVars, idxVars, eniVars>>

\* lines 100-109: the report and the store of the weight column
Store ==
    /\ pc = "report"
    /\ report' = IF converged
                 THEN [converged |-> TRUE, iterations |-> iteration + 1]
                 ELSE [converged |-> FALSE, diff |-> weight_diff]
    /\ df' = StoreWeights(df, weight_df)
    /\ pc' = "done"
    /\ UNCHANGED <<target_df, target_marginals, weight_df, prev_weights, adj_df,
                   iteration, col, weight_diff, converged>>
    /\ UNCHANGED <<pctVars, inVars, rankVars, corVars, idxVars, eniVars>>

NextIPF ==
    \/ Begin
    \/ Sweep
    \/ SweepShapeError
    \/ Check
    \/ Store

SpecIPF == InitIPF /\ [][NextIPF]_vars

(***************************************************************************)
(* Claims about weights_test.                                              *)
(***************************************************************************)
\* population target of category c of dimension d
TargetPopulation(d, c) == CellSum(target_df, {x \in Cells : x[d] = c})
\* number of respondents in category c of dimension d
Respondents(d, c) == Cardinality({i \in DOMAIN df : df[i].dim[d] = c})

\* C1: after every dimension sweep and at termination every respondent's weight
\* is strictly positive and finite, and a category whose current weighted total
\* is 0 gets the factor 1.0.
C1_WeightsPositiveFinite ==
    /\ \A i \in DOMAIN weight_df :
          IsFinite(weight_df[i].weight) /\ weight_df[i].weight[1] > 0
    /\ pc = "done" =>
          \A i \in DOMAIN df : IsFinite(df[i].weight) /\ df[i].weight[1] > 0
    /\ \A j \in DOMAIN adj_df.rows :
          adj_df.rows[j].weight = Zero => adj_df.rows[j].factor = One

\* C2: the factor a sweep multiplies into the rows of category c is
\* target_population[c] / current_weighted_total[c] for that same c.
C2_FactorOfOwnCategory ==
    \A j \in DOMAIN adj_df.rows :
        LET a == adj_df.rows[j]
        IN  /\ a.target = TargetPopulation(adj_df.column, a.key)
            /\ a.factor = Factor(TargetPopulation(adj_df.column, a.key), a.weight)

\* C3: weights_test runs to its report: it breaks at the first iteration whose
\* change is below the tolerance and reports that iteration's count, otherwise
\* it uses up max_iterations and reports the last difference; either way the
\* final weights are stored.
C3_TerminatesAndStores ==
    /\ pc # "raised"
    /\ iteration < max_iterations
    /\ (pc = "sweep" /\ iteration > 0) => ~FLess(weight_diff, tolerance)
    /\ pc = "done" =>
          /\ \A i \in DOMAIN df : df[i].weight = weight_df[i].weight
          /\ report.converged =>
                report.iterations = iteration + 1 /\ FLess(weight_diff, tolerance)
          /\ ~report.converged =>
                iteration + 1 = max_iterations /\ report.diff = weight_diff

\* every category's target equals the number of respondents in it
TargetsMatchSample ==
    \A d \in Dims, c \in Cats : TargetPopulation(d, c) = Respondents(d, c)

\* C4: when every target equals the current weighted total under the initial
\* weights, the solver converges in 1 iteration with every factor and every
\* weight 1.0.
C4_MatchingTargetsFixpoint ==
    TargetsMatchSample =>
        /\ pc # "raised"
        /\ \A j \in DOMAIN adj_df.rows : adj_df.rows[j].factor = One
        /\ \A i \in DOMAIN weight_df : weight_df[i].weight = One
        /\ pc = "done" =>
              /\ report = [converged |-> TRUE, iterations |-> 1]
              /\ \A i \in DOMAIN df : df[i].weight = One

\* everything of a table but its weight column
OtherColumns(d) == [i \in DOMAIN d |-> [d[i] EXCEPT !.weight = NoColumn]]

\* C5: weights_test keeps the rows, their order and every column other than
\* "weight"; the only write to the dataset is the final weight column, which
\* replaces a prior one.
C5_OnlyWeightWritten ==
    [][/\ OtherColumns(df') = OtherColumns(df)
       /\ df' # df => /\ pc' = "done"
                      /\ \A i \in DOMAIN df' : df'[i].weight = weight_df[i].weight]_vars

C5_Witness ==
    /\ pc = "done"
    /\ \E i \in DOMAIN df : df[i].weight \notin {NoColumn, Num(2)}
    /\ \E i \in DOMAIN df : df[i].weight # df[1].weight

(***************************************************************************)
(* percentages: counts, denominators and percentages per category.         *)
(***************************************************************************)
\* database.categories
category_cols == <<"c1">>
\* the codes an answer cell can hold; 3 has no value label
AnswerCodes == {1, 2, 3, 99}
\* the question table of the survey the percentage, index and eni runs read
survey_question_df ==
    << [base_question |-> "q1", question_type |-> "single_choice",
        columns |-> <<"q1">>,
        value_labels_info |-> (1 :> "low" @@ 2 :> "high" @@ 99 :> "no answer")] >>
\* lines 256-267: database.question_df grouped by (base_question, question_type)
question_groups == question_df
\* the answer columns of the question table
Questions == UNION {Range(question_groups[g].columns) : g \in DOMAIN question_groups}

\* list(config.NAN_VALUES.keys())
nan_values_list == DOMAIN config.NAN_VALUES

\* f"{value}" of a value-label key (the keys are floats)
ValueStr(v) ==
    CASE v = 1 -> "1.0" [] v = 2 -> "2.0" [] v = 3 -> "3.0" [] v = 4 -> "4.0"
      [] v = 5 -> "5.0" [] v = 99 -> "99.0"

\* lines 293-299: the value-label keys that are no missing codes
PossibleValues(labels) == {v \in DOMAIN labels : v \notin nan_values_list}

\* pl.col(col) == value, summed: null cells compare to null and are not counted
IsValue(cell, v) == cell # Null /\ cell = Num(v)
\* pl.col(col).is_in(nan_values_list), true
IsMissing(cell) == cell # Null /\ \E v \in nan_values_list : cell = Num(v)
\* any cell that is not null, a missing code included
IsNotNullCell(cell) == cell # Null
\* ~pl.col(col).is_in(nan_values_list), true: null cells give null, not true
IsNotMissing(cell) == cell # Null /\ ~IsMissing(cell)

\* (mask).sum(): the number of rows where the mask is true
CountRows(rows, mask) == Num(Cardinality({i \in DOMAIN rows : mask[i]}))
\* pl.when(mask).then(weight).sum(): the rows left out add nothing, and the
\* sum of no value is 0
WeightRows(rows, mask) ==
    FSum([i \in DOMAIN rows |-> IF mask[i] THEN rows[i].weight ELSE Zero])

\* the union of the functions f[x], x in S
MergeOver(S, f) ==
    [n \in UNION {DOMAIN f[x] : x \in S} |-> f[CHOOSE x \in S : n \in DOMAIN f[x]][n]]

\* lines 318-402: the aggregation expressions of one answer column, evaluated
\* on one group of rows; a column name is the list of its "_"-separated parts
Aggregations(rows, q, possible, uw) ==
    MergeOver(possible, [v \in possible |->
        (<<q, ValueStr(v), "count">> :>
            CountRows(rows, [i \in DOMAIN rows |-> IsValue(rows[i].ans[q], v)]))
        @@ (IF uw
            THEN <<q, ValueStr(v), "weighted">> :>
                    WeightRows(rows, [i \in DOMAIN rows |-> IsValue(rows[i].ans[q], v)])
            ELSE <<>>)])
    @@ (<<q, "nan", "count">> :>
            CountRows(rows, [i \in DOMAIN rows |-> IsMissing(rows[i].ans[q])]))
    @@ (IF uw
        THEN <<q, "nan", "weighted">> :>
                WeightRows(rows, [i \in DOMAIN rows |-> IsMissing(rows[i].ans[q])])
        ELSE <<>>)
    @@ (<<q, "total", "count">> :>
            CountRows(rows, [i \in DOMAIN rows |-> IsNotMissing(rows[i].ans[q])]))
    @@ (IF uw
        THEN <<q, "total", "weighted", "count">> :>
                WeightRows(rows, [i \in DOMAIN rows |-> IsNotMissing(rows[i].ans[q])])
        ELSE <<>>)

\* lines 441-453: weighted / total_weighted, fill_null(0)
WeightedPercentage(weighted, total_weighted) ==
    fill_null(FDiv(weighted, total_weighted), Zero)
\* the share scaled to 0..100
CountPercentageOfHundred(count, total_count) ==
    fill_nan(fill_null(FMul(Num(100), FDiv(count, total_count)), Zero), Zero)

\* lines 459-468: count / total_count, fill_null(0), fill_nan(0)
CountPercentage(count, total_count) ==
    fill_nan(fill_null(FDiv(count, total_count), Zero), Zero)
\* lines 477-493: nan_weighted / (total_count + nan_weighted), fill_null(0), fill_nan(0)
WeightedNanPercentage(nan_weighted, total_count, total_weighted) ==
    fill_nan(fill_null(FDiv(nan_weighted, FAdd(total_count, nan_weighted)), Zero), Zero)
\* lines 499-511: nan_count / (total_count + nan_count), fill_null(0), fill_nan(0)
CountNanPercentage(nan_count, total_count) ==
    fill_nan(fill_null(FDiv(nan_count, FAdd(total_count, nan_count)), Zero), Zero)

\* lines 432-515: the percentage expressions of one answer column on one
\* aggregated row
Percentages(agg, q, possible, uw) ==
    MergeOver(possible, [v \in possible |->
        <<q, ValueStr(v), "percentage">> :>
            IF uw
            THEN WeightedPercentage(agg[<<q, ValueStr(v), "weighted">>],
                                    agg[<<q, "total", "weighted", "count">>])
            ELSE CountPercentage(agg[<<q, ValueStr(v), "count">>],
                                 agg[<<q, "total", "count">>])])
    @@ (<<q, "nan", "percentage">> :>
            IF uw
            THEN WeightedNanPercentage(agg[<<q, "nan", "weighted">>],
                                       agg[<<q, "total", "count">>],
                                       agg[<<q, "total", "weighted", "count">>])
            ELSE CountNanPercentage(agg[<<q, "nan", "count">>],
                                    agg[<<q, "total", "count">>]))

\* lines 419-429 and 517-520: df_group.group_by(category_col).agg(...), the
\* groups listed in `order`; the null group is filtered out, and the group key
\* is overwritten with the name of the category column
GroupedAgg(rows, c, order, group, uw) ==
    LET possible == PossibleValues(group.value_labels_info)
        cols == Range(group.columns)
    IN  [k \in DOMAIN order |->
            LET members == SelectSeq(rows, LAMBDA r : r.cat[c] = order[k])
                agg == MergeOver(cols, [q \in cols |-> Aggregations(members, q, possible, uw)])
            IN  [Category |-> c,
                 metrics |-> agg @@
                     MergeOver(cols, [q \in cols |-> Percentages(agg, q, possible, uw)])]]

\* lines 575-582 and 687-692: unpivot, drop_nulls and pivot with
\* aggregate_function="first": the value of the first row of the category that
\* has one
FirstValue(combined, name, c) ==
    LET sel == SelectSeq(combined, LAMBDA r :
                   r.Category = c /\ name \in DOMAIN r.metrics /\ r.metrics[name] # Null)
    IN  IF sel = <<>> THEN Null ELSE Head(sel).metrics[name]

\* lines 584-692: the pivoted table, one row per (question, answer_value,
\* metric_type) split off the column name, one column per category
Pivot(combined) ==
    LET names == UNION {DOMAIN combined[i].metrics : i \in DOMAIN combined}
        cats == {combined[i].Category : i \in DOMAIN combined}
    IN  {[question |-> SubSeq(n, 1, Len(n) - 2),
          answer_value |-> n[Len(n) - 1],
          metric_type |-> n[Len(n)],
          values |-> [c \in cats |-> FirstValue(combined, n, c)]] : n \in names}

\* lines 701-724: the labels an answer value of a question resolves to
AnswerLabels(q, answer_value) ==
    UNION {LET labels == question_groups[g].value_labels_info
           IN  IF q \notin Range(question_groups[g].columns) THEN {}
               ELSE {labels[v] : v \in {v \in DOMAIN labels :
                        \/ v \in nan_values_list /\ answer_value = "nan"
                        \/ v \notin nan_values_list /\ answer_value = ValueStr(v)}}
           : g \in DOMAIN question_groups}

\* lines 694-777: join on the questions of question_df, resolve the labels,
\* drop the unlabelled rows that are not totals and the "0.0" rows
Labelled(final) ==
    {[question |-> r.question[1],
      answer_label |-> IF AnswerLabels(r.question[1], r.answer_value) = {} THEN "Total"
                       ELSE CHOOSE l \in AnswerLabels(r.question[1], r.answer_value) : TRUE,
      answer_value |-> r.answer_value,
      metric_type |-> r.metric_type,
      values |-> r.values] :
     r \in {x \in final :
               /\ Len(x.question) = 1 /\ x.question[1] \in Questions
               /\ AnswerLabels(x.question[1], x.answer_value) # {}
                    \/ x.answer_value = "total"
               /\ x.answer_value # "0.0"}}

RECURSIVE Concat(_)
Concat(ss) == IF ss = <<>> THEN <<>> ELSE Head(ss) \o Concat(Tail(ss))

\* the respondent tables the aggregators are run on
RespondentTables ==
    [1..NResp -> [cat : [Range(category_cols) -> {0, 1}],
                  ans : [Questions -> {Num(v) : v \in AnswerCodes} \cup {Null}],
                  weight : {Num(w) : w \in 0..MaxWeight}]]

InitPct ==
    /\ question_df = survey_question_df
    /\ df \in RespondentTables
    /\ \E w \in BOOLEAN, wc \in {<<"weight">>, Null} :
          /\ args = [weights |-> w]
          /\ config = [WEIGHT_COLUMN |-> wc, NAN_VALUES |-> (99 :> Null)]
    /\ pc = "idle"
    /\ PctIdle
    /\ IPFIdle
    /\ IdxIdle
    /\ EniIdle
    /\ RankIdle
    /\ CorIdle

\* lines 218-254
PctBegin ==
    /\ pc = "idle"
    /\ use_weights' = (args.weights /\ config.WEIGHT_COLUMN # Null)
    /\ percentage_results_list' = <<>>
    /\ group_i' = 1
    /\ pc' = "pct_group"
    /\ df' = DfAfterClone(df, df)
    /\ UNCHANGED <<cat_i, results_for_this_group_list, final_results_df, percentage_df>>
    /\ UNCHANGED <<ipfVars, inVars, rankVars, corVars, idxVars, eniVars>>

\* lines 269-410: a single_choice, multi_response or grid group with possible
\* values; its aggregation expressions are set up
PctGroup ==
    /\ pc = "pct_group"
    /\ group_i <= Len(question_groups)
    /\ question_groups[group_i].question_type
          \in {"multi_response", "grid", "single_choice"}
    /\ IF PossibleValues(question_groups[group_i].value_labels_info) = {}
       THEN group_i' = group_i + 1 /\ pc' = "pct_group"
            /\ UNCHANGED <<cat_i, results_for_this_group_list>>
       ELSE cat_i' = 1 /\ results_for_this_group_list' = <<>> /\ pc' = "pct_category"
            /\ UNCHANGED group_i
    /\ UNCHANGED <<use_weights, percentage_results_list, final_results_df, percentage_df>>
    /\ UNCHANGED <<df, ipfVars, inVars, rankVars, corVars, idxVars, eniVars>>

\* lines 412-527: the aggregation of the group for one category column
PctCategory ==
    /\ pc = "pct_category"
    /\ cat_i <= Len(category_cols)
    /\ LET c == category_cols[cat_i]
       IN  \E order \in Orderings({df[i].cat[c] : i \in DOMAIN df}) :
              results_for_this_group_list' =
                  Append(results_for_this_group_list,
                         GroupedAgg(df, c, order, question_groups[group_i], use_weights))
    /\ cat_i' = cat_i + 1
    /\ UNCHANGED <<pc, use_weights, group_i, percentage_results_list, final_results_df,
                   percentage_df>>
    /\ UNCHANGED <<df, ipfVars, inVars, rankVars, corVars, idxVars, eniVars>>

\* lines 529-536: the group's tables are concatenated
PctEndGroup ==
    /\ pc = "pct_category"
    /\ cat_i > Len(category_cols)
    /\ percentage_results_list' =
          IF results_for_this_group_list # <<>>
          THEN Append(percentage_results_list, Concat(results_for_this_group_list))
          ELSE percentage_results_list
    /\ group_i' = group_i + 1
    /\ pc' = "pct_group"
    /\ UNCHANGED <<use_weights, cat_i, results_for_this_group_list, final_results_df,
                   percentage_df>>
    /\ UNCHANGED <<df, ipfVars, inVars, rankVars, corVars, idxVars, eniVars>>

\* lines 552-692 and 798-800: concat, unpivot and pivot
PctCombine ==
    /\ pc = "pct_group"
    /\ group_i > Len(question_groups)
    /\ final_results_df' =
          IF percentage_results_list # <<>>
          THEN Pivot(Concat(percentage_results_list))
          ELSE {}
    /\ pc' = "pct_store"
    /\ UNCHANGED <<use_weights, group_i, cat_i, results_for_this_group_list,
                   percentage_results_list, percentage_df>>
    /\ UNCHANGED <<df, ipfVars, inVars, rankVars, corVars, idxVars, eniVars>>

\* the new table is added to the rows stored before
KeepAndStorePercentageDf(stored, final_result_ordered_df) ==
    stored \cup final_result_ordered_df
\* line 806: self.database.percentage_df = final_result_ordered_df
StorePercentageDf(stored, final_result_ordered_df) == final_result_ordered_df

\* lines 694-808: the labelled table is stored; final_result_ordered_df is
\* unbound when there was nothing to combine
PctStore ==
    /\ pc = "pct_store"
    /\ IF percentage_results_list # <<>>
       THEN /\ percentage_df' = StorePercentageDf(percentage_df, Labelled(final_results_df))
            /\ pc' = "done"
       ELSE pc' = "raised" /\ UNCHANGED percentage_df
    /\ UNCHANGED <<use_weights, group_i, cat_i, results_for_this_group_list,
                   percentage_results_list, final_results_df>>
    /\ UNCHANGED <<df, ipfVars, inVars, rankVars, corVars, idxVars, eniVars>>

NextPct ==
    \/ PctBegin
    \/ PctGroup
    \/ PctCategory
    \/ PctEndGroup
    \/ PctCombine
    \/ PctStore

SpecPct == InitPct /\ [][NextPct]_vars

(***************************************************************************)
(* Claims about percentages.                                               *)
(***************************************************************************)
\* every aggregated row computed so far, in the order of the concatenation
AggRows ==
    Concat(percentage_results_list) \o
        (IF pc = "pct_category" THEN Concat(results_for_this_group_list) ELSE <<>>)

\* sum of the values of f at the column names in S
RECURSIVE SumOver(_, _)
SumOver(f, S) ==
    IF S = {} THEN Zero
    ELSE LET n == CHOOSE x \in S : TRUE IN FAdd(f[n], SumOver(f, S \ {n}))

Possible(q) ==
    UNION {IF q \in Range(question_groups[g].columns)
           THEN PossibleValues(question_groups[g].value_labels_info) ELSE {}
           : g \in DOMAIN question_groups}
\* sum of the value-percentages of column q in the aggregated row r
ValuePercentageSum(r, q) ==
    SumOver(r.metrics, {<<q, ValueStr(v), "percentage">> : v \in Possible(q)})
ValueCountSum(r, q) ==
    SumOver(r.metrics, {<<q, ValueStr(v), "count">> : v \in Possible(q)})
\* value-percentages plus missing-percentage
PercentageTotal(r, q) ==
    FAdd(ValuePercentageSum(r, q), r.metrics[<<q, "nan", "percentage">>])
\* the denominator of the value-percentages of column q in row r
Denominator(r, q) ==
    IF use_weights THEN r.metrics[<<q, "total", "weighted", "count">>]
    ELSE r.metrics[<<q, "total", "count">>]

\* C6 (as stated): for every answer column and category, the value-percentages
\* over all possible values plus the missing-percentage sum to 1.0.
C6_SumToOne ==
    \A i \in DOMAIN AggRows, q \in Questions : PercentageTotal(AggRows[i], q) = One

\* C6 (amended): when the denominator of a column and category is not 0 and
\* every non-missing answer is a possible value, the value-percentages sum to
\* 1.0 on their own; the missing-percentage comes on top, so that the total
\* is 1.0 exactly when the missing-percentage is 0.
C6_SumToOneWithoutMissing ==
    \A i \in DOMAIN AggRows, q \in Questions :
        LET r == AggRows[i]
        IN  (/\ Denominator(r, q) # Zero
             /\ ValueCountSum(r, q) = r.metrics[<<q, "total", "count">>]) =>
                /\ ValuePercentageSum(r, q) = One
                /\ PercentageTotal(r, q) = One
                      <=> r.metrics[<<q, "nan", "percentage">>] = Zero

C6_Witness ==
    /\ pc = "done"
    /\ \E i \in DOMAIN AggRows :
          /\ AggRows[i].metrics[<<"q1", "total", "count">>] = One
          /\ AggRows[i].metrics[<<"q1", "1.0", "count">>] = One
          /\ AggRows[i].metrics[<<"q1", "nan", "count">>] = One
          /\ PercentageTotal(AggRows[i], "q1") = <<3, 2>>

\* C7: whenever the denominator of a column and category is 0, every
\* value-percentage reported for it is 0, weighted or not; none is NaN or
\* infinite.
C7_ZeroDenominatorGivesZero ==
    \A i \in DOMAIN AggRows, q \in Questions : \A v \in Possible(q) :
        LET share == AggRows[i].metrics[<<q, ValueStr(v), "percentage">>]
        IN  /\ IsFinite(share)
            /\ Denominator(AggRows[i], q) = Zero => share = Zero

\* the respondents whose flag of category c is true
Flagged(c) == SelectSeq(df, LAMBDA r : r.cat[c] = 1)

\* C8: what is reported under a category column, in the long form and in the
\* pivoted result, is computed from the rows whose flag for it is true only.
C8_OnlyFlaggedRows ==
    /\ \A i \in DOMAIN AggRows, q \in Questions :
          LET r == AggRows[i]
          IN  /\ r.metrics[<<q, "total", "count">>] =
                    Num(Len(SelectSeq(Flagged(r.Category), LAMBDA x : IsNotMissing(x.ans[q]))))
              /\ r.metrics[<<q, "nan", "count">>] =
                    Num(Len(SelectSeq(Flagged(r.Category), LAMBDA x : IsMissing(x.ans[q]))))
    /\ pc = "done" =>
          \A x \in final_results_df : \A c \in DOMAIN x.values :
              (x.metric_type = "count" /\ x.answer_value = "total") =>
                  x.values[c] =
                      Num(Len(SelectSeq(Flagged(c), LAMBDA y : IsNotMissing(y.ans[x.question[1]]))))

\* x / y with a zero denominator giving 0
SafeShare(x, y) == IF y = Zero THEN Zero ELSE FDiv(x, y)

\* C9: the missing-percentage is missing / (denominator + missing), both terms
\* weighted sums in weighted mode and both row counts in unweighted mode.
C9_MissingPercentageOneMode ==
    \A i \in DOMAIN AggRows, q \in Questions :
        LET m == AggRows[i].metrics
        IN  m[<<q, "nan", "percentage">>] =
                IF use_weights
                THEN SafeShare(m[<<q, "nan", "weighted">>],
                               FAdd(m[<<q, "total", "weighted", "count">>],
                                    m[<<q, "nan", "weighted">>]))
                ELSE SafeShare(m[<<q, "nan", "count">>],
                               FAdd(m[<<q, "total", "count">>], m[<<q, "nan", "count">>]))

(***************************************************************************)
(* index: individual and area index per category.                          *)
(***************************************************************************)
\* list(config.area_map.items()): each area with its questions
AreaMap == config.area_map
\* lines 1137-1140
questions_present ==
    LET all_questions == Concat([k \in DOMAIN AreaMap |-> AreaMap[k].questions])
    IN  SelectSeq(all_questions, LAMBDA q : q \in Questions)

\* meta.variable_value_labels of an answer column
variable_value_labels(q) ==
    LET g == CHOOSE g \in DOMAIN question_groups : q \in Range(question_groups[g].columns)
    IN  question_groups[g].value_labels_info

\* lines 1113-1121 and 1125-1133: the columns one of whose value labels is a
\* missing code
NanCodedColumns ==
    {q \in Questions : \E value \in DOMAIN variable_value_labels(q) : value \in nan_values_list}

\* pl.col(col).is_in(nan_values_list): 1 for true, 0 for false, null for null
WasNanValueCode(cell) ==
    IF cell = Null THEN Null ELSE IF IsMissing(cell) THEN One ELSE Zero

\* pl.col(col).replace(nan_values_config)
Replace(cell) ==
    IF cell # Null /\ IsMissing(cell)
    THEN config.NAN_VALUES[CHOOSE v \in nan_values_list : cell = Num(v)]
    ELSE cell

\* lines 1098-1135: the clone with the flag columns and the replaced codes
DfClean(d) ==
    [i \in DOMAIN d |->
        [cat |-> d[i].cat,
         weight |-> d[i].weight,
         was_nan_value_code |->
             [q \in (IF nan_values_list # {} THEN NanCodedColumns ELSE {}) |->
                 WasNanValueCode(d[i].ans[q])],
         ans |-> [q \in Questions |->
                     IF nan_values_list # {} /\ q \in NanCodedColumns
                     THEN Replace(d[i].ans[q]) ELSE d[i].ans[q]]]]

\* lines 1215-1219: the rows of the category
CategoryFiltered(clean, c) == SelectSeq(clean, LAMBDA r : r.cat[c] = 1)

\* lines 1220-1242: per flagged question, the number of true flags; no row when
\* there is no flag column
NanCounts(filtered) ==
    LET flagged == IF filtered = <<>> THEN {} ELSE DOMAIN filtered[1].was_nan_value_code
    IN  [q \in flagged |->
            LET sel == SelectSeq(filtered, LAMBDA r : r.was_nan_value_code[q] = One)
            IN  Num(Len(sel))]

\* lines 1254-1262: melt, left join of nan_counts, drop_nans on Value
Melted(filtered, c, nan_counts) ==
    LET long == Concat([k \in DOMAIN questions_present |->
                    [i \in DOMAIN filtered |->
                        [Category |-> c,
                         weight |-> filtered[i].weight,
                         Question |-> questions_present[k],
                         Value |-> filtered[i].ans[questions_present[k]],
                         Nan_Count |-> IF questions_present[k] \in DOMAIN nan_counts
                                       THEN nan_counts[questions_present[k]]
                                       ELSE Null]]])
    IN  SelectSeq(long, LAMBDA r : r.Value = Null \/ ~IsNaN(r.Value))

\* lines 1198-1204: area_map_df, the area of a question
AreaOf(q) ==
    LET hits == {k \in DOMAIN AreaMap : q \in Range(AreaMap[k].questions)}
    IN  IF hits = {} THEN Null ELSE <<AreaMap[CHOOSE k \in hits : TRUE].area>>

\* lines 1270-1272: join of area_map_df, rows without an area dropped
WithArea(melted) ==
    LET joined == [i \in DOMAIN melted |->
                      [Category |-> melted[i].Category,
                       weight |-> melted[i].weight,
                       Question |-> melted[i].Question,
                       Value |-> melted[i].Value,
                       Nan_Count |-> melted[i].Nan_Count,
                       area |-> AreaOf(melted[i].Question)]]
    IN  SelectSeq(joined, LAMBDA r : r.area # Null)

\* lines 1286-1307: the least and greatest value-label key that is no missing code
MetaRange(q) ==
    LET numeric_values == {v \in DOMAIN variable_value_labels(q) :
                              v \notin DOMAIN config.NAN_VALUES}
    IN  IF numeric_values = {} THEN Null
        ELSE <<CHOOSE v \in numeric_values : \A w \in numeric_values : v <= w,
               CHOOSE v \in numeric_values : \A w \in numeric_values : v >= w>>

\* a rescaling that stretches the value without moving the codebook minimum
\* to 0 first
ScaledValueFromZero(value, q, scale) ==
    LET range == MetaRange(q)
    IN  IF range = Null THEN value
        ELSE IF value = Null THEN Null
        ELSE IF range[2] > range[1]
             THEN FAdd(FMul(value, FDiv(Num(scale[2] - scale[1]), Num(range[2] - range[1]))),
                       Num(scale[1]))
             ELSE value
\* lines 1331-1351: (Value - min) * ((target_max - target_min) / (max - min))
\* + target_min when max > min, Value otherwise; null stays null
ScaledValue(value, q, scale) ==
    LET range == MetaRange(q)
    IN  IF range = Null THEN value
        ELSE IF value = Null THEN Null
        ELSE IF range[2] > range[1]
             THEN FAdd(FMul(FSub(value, Num(range[1])),
                            FDiv(Num(scale[2] - scale[1]), Num(range[2] - range[1]))),
                       Num(scale[1]))
             ELSE value

\* lines 1280-1356
Scaled(melted, scale) ==
    IF scale # Null /\ Len(scale) = 2
    THEN [i \in DOMAIN melted |->
             [melted[i] EXCEPT !.Value = ScaledValue(@, melted[i].Question, scale)]]
    ELSE melted


\* melted_df.fill_null(0): every null of every column becomes 0
FillNullZero(melted) ==
    [i \in DOMAIN melted |->
        [melted[i] EXCEPT !.Value = fill_null(@, Zero), !.Nan_Count = fill_null(@, Zero)]]

\* lines 1358-1364 and 1394-1399: (Value * weight).sum() / weight.sum(), a null
\* product being left out of its sum, or the mean of the values that are not
\* null, which is null when there is none
IndexExpr(rows, uw) ==
    LET valued == SelectSeq(rows, LAMBDA r : r.Value # Null)
        values == [i \in DOMAIN valued |-> valued[i].Value]
    IN  IF uw
        THEN FDiv(FSum([i \in DOMAIN valued |-> FMul(valued[i].Value, valued[i].weight)]),
                  FSum([i \in DOMAIN rows |-> rows[i].weight]))
        ELSE IF valued = <<>> THEN Null ELSE FDiv(FSum(values), Num(Len(valued)))

\* pl.count("Value"): the values that are not null
CountIndividual(rows) == Num(Len(SelectSeq(rows, LAMBDA r : r.Value # Null)))

\* lines 1366-1387: per (Category, Question, area, Nan_Count) group of the
\* null-filled table, the index, made null when Count_Individual + Nan_Count
\* is below MINIMUM_COUNT
IndividualQuestionIndex(melted, uw) ==
    LET filled == FillNullZero(melted)
        keys == {<<filled[i].Question, filled[i].area, filled[i].Nan_Count>> :
                    i \in DOMAIN filled}
    IN  {LET rows == SelectSeq(filled, LAMBDA r :
                        <<r.Question, r.area, r.Nan_Count>> = k)
         IN  [Question |-> k[1], area |-> k[2],
              Individual_Index |->
                  IF FLess(FAdd(CountIndividual(rows), k[3]), Num(config.MINIMUM_COUNT))
                  THEN Null ELSE IndexExpr(rows, uw)] : k \in keys}

\* lines 1394-1409: the area index, pooled over the rows of the table that is
\* not null-filled
AreaIndex(melted, uw) ==
    LET areas == {melted[i].area : i \in DOMAIN melted}
    IN  [a \in areas |-> IndexExpr(SelectSeq(melted, LAMBDA r : r.area = a), uw)]

\* lines 1411-1425: final_category_df
FinalCategory(melted, c, uw) ==
    LET area_index == AreaIndex(melted, uw)
    IN  {[Category |-> c, area |-> x.area, Question |-> x.Question,
          Individual_Index |-> x.Individual_Index,
          Area_Index |-> area_index[x.area]] : x \in IndividualQuestionIndex(melted, uw)}

\* lines 1427-1489: both pivots with aggregate_function="first", joined on
\* Category and renamed; a category has one row per question and area here
WideResult(results) ==
    LET rows == UNION Range(results)
        cats == {x.Category : x \in rows}
    IN  [c \in cats |->
            [individual |->
                [q \in {x.Question : x \in {y \in rows : y.Category = c}} |->
                    (CHOOSE x \in rows : x.Category = c /\ x.Question = q).Individual_Index],
             areas |->
                [a \in {x.area : x \in {y \in rows : y.Category = c}} |->
                    (CHOOSE x \in rows : x.Category = c /\ x.area = a).Area_Index]]]


\* the scale arguments tried: none, or (target_min, target_max)
ScaleArgs == {Null, <<0, 10>>}

InitIdx ==
    /\ question_df = survey_question_df
    /\ df \in RespondentTables
    /\ \E w \in BOOLEAN, s \in ScaleArgs :
          args = [weights |-> w, scale |-> s, correlate |-> ""]
    /\ \E wc \in {<<"weight">>, Null}, missing \in {Null, NaN}, m \in 1..MaxMinimumCount :
          config = [WEIGHT_COLUMN |-> wc,
                    NAN_VALUES |-> (99 :> missing),
                    MINIMUM_COUNT |-> m,
                    area_map |-> <<[area |-> "A", questions |-> <<"q1">>]>>]
    /\ pc = "idle"
    /\ IPFIdle
    /\ PctIdle
    /\ IdxIdle
    /\ EniIdle
    /\ RankIdle
    /\ CorIdle

\* lines 1098-1204: the private copy, the questions of area_map that are
\* columns, the call of _correlate when correlate is given, the empty result
\* when no question is a column
IdxBegin ==
    /\ pc = "idle"
    /\ df_clean' = DfClean(df)
    /\ use_weights' = (args.weights /\ config.WEIGHT_COLUMN # Null)
    /\ category_i' = 1
    /\ results_list' = <<>>
    /\ pc' = IF args.correlate # "" THEN "idx_correlate"
             ELSE IF questions_present = <<>> THEN "done" ELSE "idx_category"
    /\ df' = DfAfterClone(df, DfClean(df))
    /\ UNCHANGED <<group_i, cat_i, results_for_this_group_list, percentage_results_list,
                   final_results_df, percentage_df, index_df>>
    /\ UNCHANGED <<ipfVars, inVars, rankVars, corVars, eniVars>>

\* lines 1206-1425: one category column, skipped when the table does not have
\* it; weight_column is bound only when
\* use_weights is true and is read whenever weights is true
IdxCategory ==
    /\ pc = "idx_category"
    /\ category_i <= Len(category_cols)
    /\ LET c == category_cols[category_i]
           filtered == CategoryFiltered(df_clean, c)
           melted == Scaled(WithArea(Melted(filtered, c, NanCounts(filtered))), args.scale)
       IN  IF c \notin DOMAIN df_clean[1].cat
           THEN category_i' = category_i + 1 /\ UNCHANGED <<pc, results_list>>
           ELSE IF filtered = <<>>
           THEN category_i' = category_i + 1 /\ UNCHANGED <<pc, results_list>>
           ELSE IF args.weights /\ ~use_weights
           THEN pc' = "raised" /\ UNCHANGED <<category_i, results_list>>
           ELSE IF melted = <<>>
           THEN category_i' = category_i + 1 /\ UNCHANGED <<pc, results_list>>
           ELSE /\ results_list' = Append(results_list, FinalCategory(melted, c, use_weights))
                /\ category_i' = category_i + 1
                /\ UNCHANGED pc
    /\ UNCHANGED <<df_clean, index_df, pctVars>>
    /\ UNCHANGED <<df, ipfVars, inVars, rankVars, corVars, eniVars>>

\* lines 1427-1489: the wide result is stored when a category gave a table
IdxStore ==
    /\ pc = "idx_category"
    /\ category_i > Len(category_cols)
    /\ index_df' = IF results_list # <<>> THEN WideResult(results_list) ELSE index_df
    /\ pc' = "done"
    /\ UNCHANGED <<df_clean, category_i, results_list, pctVars>>
    /\ UNCHANGED <<df, ipfVars, inVars, rankVars, corVars, eniVars>>

NextIdx ==
    \/ IdxBegin
    \/ IdxCategory
    \/ IdxStore

SpecIdx == InitIdx /\ [][NextIdx]_vars

(***************************************************************************)
(* Claims about index.                                                     *)
(***************************************************************************)
\* the individual index reported for question q and category c; null when the
\* result has no such row or column
ReportedIndex(c, q) ==
    IF index_df = Null THEN Null
    ELSE IF c \notin DOMAIN index_df THEN Null
    ELSE IF q \notin DOMAIN index_df[c].individual THEN Null
    ELSE index_df[c].individual[q]

\* the respondents of category c with an answer to q that is no missing code
Answered(c, q) == Len(SelectSeq(Flagged(c), LAMBDA r : IsNotMissing(r.ans[q])))
\* the respondents of category c whose answer to q is a missing code
MissingCoded(c, q) == Len(SelectSeq(Flagged(c), LAMBDA r : IsMissing(r.ans[q])))

\* C10: the individual index of a question for a category is absent exactly
\* when the respondents of the category with a non-missing answer plus those
\* with a missing-coded answer, each counted once, are fewer than MINIMUM_COUNT.
C10_SuppressedBelowMinimumCount ==
    pc = "done" =>
        \A c \in Range(category_cols), q \in Questions :
            (ReportedIndex(c, q) = Null)
                <=> (Answered(c, q) + MissingCoded(c, q) < config.MINIMUM_COUNT)


\* the (weighted, if requested) mean of the answers to q of the respondents of
\* category c that are neither null nor a missing code
MeanOfAnswered(c, q) ==
    LET sel == SelectSeq(Flagged(c), LAMBDA r : IsNotMissing(r.ans[q]))
    IN  IF use_weights
        THEN FDiv(FSum([i \in DOMAIN sel |-> FMul(sel[i].ans[q], sel[i].weight)]),
                  FSum([i \in DOMAIN sel |-> sel[i].weight]))
        ELSE FDiv(FSum([i \in DOMAIN sel |-> sel[i].ans[q]]), Num(Len(sel)))

\* C11: without scaling, an individual index that is not suppressed is the
\* (weighted, if requested) mean of the category's answers that are not
\* missing; a cell that held a missing code adds nothing to sum or divisor.
C11_IndexIsMeanOfAnswered ==
    (pc = "done" /\ args.scale = Null) =>
        \A c \in Range(category_cols), q \in Questions :
            (ReportedIndex(c, q) # Null /\ Answered(c, q) > 0) =>
                ReportedIndex(c, q) = MeanOfAnswered(c, q)


(***************************************************************************)
(* eni: engagement classes per category, and the regrouped percentages.    *)
(***************************************************************************)
\* config.area_map.get(area): the questions of the area, null for an area
\* that is no key of area_map
AreaQuestions(area) ==
    LET hits == {k \in DOMAIN AreaMap : AreaMap[k].area = area}
    IN  IF hits = {} THEN Null ELSE <<AreaMap[CHOOSE k \in hits : TRUE].questions>>

\* lines 1778-1780, for an area of area_map
eni_questions_present(area) ==
    SelectSeq(AreaQuestions(area)[1], LAMBDA q : q \in Questions)

\* pl.mean_horizontal(questions): the mean of the cells that are not null,
\* null when every cell is null
MeanHorizontal(r, questions) ==
    LET valued == SelectSeq(questions, LAMBDA q : r.ans[q] # Null)
    IN  IF valued = <<>> THEN Null
        ELSE FDiv(FSum([k \in DOMAIN valued |-> r.ans[valued[k]]]), Num(Len(valued)))

\* x <= y for numbers that are not NaN
FLeq(x, y) == x = y \/ FLess(x, y)

\* the class bounds written in the when/then chain
eni_low == <<3, 1>>
eni_high_closed == <<419, 100>>
eni_high == <<21, 5>>

\* the classes with "2" for every average in [3.0, 4.2)
ENICategoryHalfOpen(value) ==
    IF value # Null /\ FLeq(eni_low, value) /\ FLess(value, eni_high) THEN "2"
    ELSE IF value # Null /\ FLeq(eni_high, value) THEN "3"
    ELSE "1"

\* lines 1846-1853: "2" when Value.is_between(3.0, 4.19), both ends included,
\* else "3" when Value >= 4.2, otherwise "1"; a null Value makes both
\* conditions null and takes the otherwise branch
ENICategory(value) ==
    IF value # Null /\ FLeq(eni_low, value) /\ FLeq(value, eni_high_closed) THEN "2"
    ELSE IF value # Null /\ FLeq(eni_high, value) THEN "3"
    ELSE "1"

\* lines 1838-1853: the selected rows of the category (the weight column is
\* among the selected columns of a weighted run) with Value and ENI_Category
EniRows(filtered, questions) ==
    [i \in DOMAIN filtered |->
        [weight |-> filtered[i].weight,
         Value |-> MeanHorizontal(filtered[i], questions),
         ENI_Category |-> ENICategory(MeanHorizontal(filtered[i], questions))]]

\* per class, its share of the weights of the rows of the category
EniProportionsByWeight(eni_rows, c) ==
    LET classes == {eni_rows[i].ENI_Category : i \in DOMAIN eni_rows}
    IN  {[Category |-> c, ENI_Category |-> k,
          ENI_Proportion |->
              FDiv(FSum([i \in DOMAIN eni_rows |->
                           IF eni_rows[i].ENI_Category = k THEN eni_rows[i].weight ELSE Zero]),
                   FSum([i \in DOMAIN eni_rows |-> eni_rows[i].weight]))] : k \in classes}

\* lines 1854-1868: per class that occurs in the category, its share of the
\* rows of the category
EniProportions(eni_rows, c) ==
    LET classes == {eni_rows[i].ENI_Category : i \in DOMAIN eni_rows}
    IN  {[Category |-> c, ENI_Category |-> k,
          ENI_Proportion |->
              FDiv(Num(Cardinality({i \in DOMAIN eni_rows : eni_rows[i].ENI_Category = k})),
                   Num(Len(eni_rows)))] : k \in classes}

\* lines 1872-1880: one column per class that occurs in some category, one
\* row per category, the cells without a value filled with 0
EniPivot(results) ==
    LET rows == UNION Range(results)
        classes == {x.ENI_Category : x \in rows}
        cats == {x.Category : x \in rows}
    IN  [c \in cats |->
            [k \in classes |->
                IF \E x \in rows : x.Category = c /\ x.ENI_Category = k
                THEN (CHOOSE x \in rows : x.Category = c /\ x.ENI_Category = k).ENI_Proportion
                ELSE Zero]]


\* a chain that takes "4.0" for a promoter value
GroupedAnswerValueFourUp(answer_value) ==
    IF answer_value \in {"1.0", "2.0"} THEN "1-2"
    ELSE IF answer_value = "3.0" THEN "3-4"
    ELSE IF answer_value \in {"4.0", "5.0"} THEN "5"
    ELSE "Other"

\* lines 1889-1898: grouped_answer_value
GroupedAnswerValue(answer_value) ==
    IF answer_value \in {"1.0", "2.0"} THEN "1-2"
    ELSE IF answer_value \in {"3.0", "4.0"} THEN "3-4"
    ELSE IF answer_value = "5.0" THEN "5"
    ELSE "Other"

\* lines 1905-1914: label
BucketLabel(grouped_answer_value) ==
    CASE grouped_answer_value = "1-2" -> "Motarbeidere"
      [] grouped_answer_value = "3-4" -> "Nøytrale"
      [] grouped_answer_value = "5" -> "Engasjerte"
      [] OTHER -> "Ukjent"

\* pl.sum(col) over a group of rows: nulls are left out, no value sums to 0
RECURSIVE SumColumn(_, _)
SumColumn(rows, c) ==
    IF rows = {} THEN Zero
    ELSE LET r == CHOOSE x \in rows : TRUE
         IN  FAdd(fill_null(r.values[c], Zero), SumColumn(rows \ {r}, c))

\* lines 1886-1916: the stored percentage table grouped by question, bucket
\* and metric type, each category column summed
EniPercentage(pdf) ==
    LET keys == {<<r.question, GroupedAnswerValue(r.answer_value), r.metric_type>> : r \in pdf}
    IN  {LET rows == {r \in pdf : <<r.question, GroupedAnswerValue(r.answer_value),
                                     r.metric_type>> = k}
         IN  [question |-> k[1], grouped_answer_value |-> k[2], metric_type |-> k[3],
              label |-> BucketLabel(k[2]),
              values |-> [c \in Range(category_cols) |-> SumColumn(rows, c)]] : k \in keys}


\* the answers tried for the question of the area: 2.9, 3.0, 4.195, 4.2 and
\* the missing code (88/21, the mean of 21 five-point answers, lies between
\* 4.19 and 4.2 as 4.195 does)
EniAnswers == {<<29, 10>>, <<3, 1>>, <<839, 200>>, <<21, 5>>, Num(99)}

EniTables ==
    [1..NResp -> [cat : [Range(category_cols) -> {0, 1}],
                  ans : [Questions -> EniAnswers],
                  weight : {Num(w) : w \in 1..MaxWeight}]]

\* the table percentages() stores for a five-point question q1 with the given
\* number of answers per value, unweighted, in category c1
StoredTable(counts) ==
    LET total == FSum([k \in 1..1 |-> Num(counts[1] + counts[2] + counts[4] + counts[5])])
    IN  {[question |-> "q1", answer_label |-> "label", answer_value |-> ValueStr(v),
          metric_type |-> "count", values |-> ("c1" :> Num(counts[v]))] : v \in DOMAIN counts}
        \cup
        {[question |-> "q1", answer_label |-> "label", answer_value |-> ValueStr(v),
          metric_type |-> "percentage",
          values |-> ("c1" :> CountPercentage(Num(counts[v]), total))] : v \in DOMAIN counts}
        \cup
        {[question |-> "q1", answer_label |-> "Total", answer_value |-> "total",
          metric_type |-> "count", values |-> ("c1" :> total)]}

\* database.percentage_df when eni is called: never computed, or stored by an
\* earlier percentages()
StoredPercentageTables == {NoTable} \cup {StoredTable(counts) : counts \in [{1, 2, 4, 5} -> 0..MaxStoredCount]}

InitEni ==
    /\ question_df = survey_question_df
    /\ df \in EniTables
    /\ \E a \in {"A", "B"}, w \in BOOLEAN : args = [area |-> a, weights |-> w]
    /\ \E wc \in {<<"weight">>, Null} :
          config = [WEIGHT_COLUMN |-> wc,
                    NAN_VALUES |-> (99 :> Null),
                    area_map |-> <<[area |-> "A", questions |-> <<"q1">>]>>]
    /\ pc = "idle"
    /\ IPFIdle
    /\ use_weights = FALSE /\ group_i = 1 /\ cat_i = 1
    /\ results_for_this_group_list = <<>> /\ percentage_results_list = <<>>
    /\ final_results_df = Null
    /\ percentage_df \in StoredPercentageTables
    /\ IdxIdle
    /\ EniIdle
    /\ RankIdle
    /\ CorIdle

\* lines 1739-1793: the private copy and the questions of the area;
\* area_map.get(area) is None for an area that is no key, and the
\* comprehension over it raises
EniBegin ==
    /\ pc = "idle"
    /\ df_clean' = DfClean(df)
    /\ use_weights' = (args.weights /\ config.WEIGHT_COLUMN # Null)
    /\ category_i' = 1
    /\ results_list' = <<>>
    /\ pc' = IF AreaQuestions(args.area) = Null THEN "raised"
             ELSE IF eni_questions_present(args.area) = <<>> THEN "done"
             ELSE "eni_category"
    /\ df' = DfAfterClone(df, DfClean(df))
    /\ UNCHANGED <<group_i, cat_i, results_for_this_group_list, percentage_results_list,
                   final_results_df, percentage_df, index_df>>
    /\ UNCHANGED <<ipfVars, inVars, rankVars, corVars, eniVars>>

\* lines 1795-1870: one category column; weight_column is bound only when
\* use_weights is true and is read whenever weights is true
EniCategory ==
    /\ pc = "eni_category"
    /\ category_i <= Len(category_cols)
    /\ LET c == category_cols[category_i]
           filtered == CategoryFiltered(df_clean, c)
       IN  IF filtered = <<>>
           THEN category_i' = category_i + 1 /\ UNCHANGED <<pc, results_list>>
           ELSE IF args.weights /\ ~use_weights
           THEN pc' = "raised" /\ UNCHANGED <<category_i, results_list>>
           ELSE /\ results_list' =
                      Append(results_list,
                             EniProportions(EniRows(filtered, eni_questions_present(args.area)), c))
                /\ category_i' = category_i + 1
                /\ UNCHANGED pc
    /\ UNCHANGED <<df_clean, index_df, pctVars>>
    /\ UNCHANGED <<df, ipfVars, inVars, rankVars, corVars, eniVars>>

\* lines 1872-1884: the pivot is stored, then _eni_percentage regroups
\* database.percentage_df, which raises when no percentage table is stored
EniStore ==
    /\ pc = "eni_category"
    /\ category_i > Len(category_cols)
    /\ IF results_list = <<>>
       THEN pc' = "done" /\ UNCHANGED eniVars
       ELSE /\ eni_df' = EniPivot(results_list)
            /\ IF percentage_df = NoTable
               THEN pc' = "raised" /\ UNCHANGED eni_percentage_df
               ELSE pc' = "done" /\ eni_percentage_df' = EniPercentage(percentage_df)
    /\ UNCHANGED <<idxVars, pctVars>>
    /\ UNCHANGED <<df, ipfVars, inVars, rankVars, corVars>>

NextEni ==
    \/ EniBegin
    \/ EniCategory
    \/ EniStore

SpecEni == InitEni /\ [][NextEni]_vars


(***************************************************************************)
(* Claims about eni.                                                       *)
(***************************************************************************)
\* eni has stored database.eni_df
EniStored ==
    /\ pc \in {"done", "raised"}
    /\ category_i > Len(category_cols)
    /\ results_list # <<>>

\* the area averages of the respondents of category c
AreaAverages(c) ==
    LET rows == CategoryFiltered(DfClean(df), c)
    IN  [i \in DOMAIN rows |-> MeanHorizontal(rows[i], eni_questions_present(args.area))]

\* the proportion eni reports for class k in category c, 0 for a class that
\* has no column
ReportedProportion(c, k) == IF k \in DOMAIN eni_df[c] THEN eni_df[c][k] ELSE Zero

\* C12: a respondent with area average a is counted in class "1" if a < 3.0,
\* in "2" if 3.0 <= a < 4.2 and in "3" if a >= 4.2, for every value of a.
C12_ClassBounds ==
    EniStored =>
        \A c \in DOMAIN eni_df :
            LET a == AreaAverages(c)
            IN  (\A i \in DOMAIN a : a[i] # Null) =>
                    \A k \in {"1", "2", "3"} :
                        ReportedProportion(c, k) =
                            FDiv(Num(Cardinality({i \in DOMAIN a :
                                                     ENICategoryHalfOpen(a[i]) = k})),
                                 Num(Len(a)))

\* C13: per category the proportion of each class is its share of the
\* respondents of the category, a class without respondents is reported as 0,
\* also when no category has a respondent in it, and the three sum to 1.0.
C13_ProportionsOfThreeClasses ==
    EniStored =>
        \A c \in DOMAIN eni_df :
            LET a == AreaAverages(c)
            IN  /\ DOMAIN eni_df[c] = {"1", "2", "3"}
                /\ \A k \in DOMAIN eni_df[c] :
                      eni_df[c][k] =
                          FDiv(Num(Cardinality({i \in DOMAIN a : ENICategory(a[i]) = k})),
                               Num(Len(a)))
                /\ FAdd(ReportedProportion(c, "1"),
                        FAdd(ReportedProportion(c, "2"), ReportedProportion(c, "3"))) = One


\* the value of category column c in the row of the stored percentage table
\* for question q, answer value av and metric type m; 0 when there is no row
StoredValue(q, av, m, c) ==
    LET hits == {r \in percentage_df :
                    r.question = q /\ r.answer_value = av /\ r.metric_type = m}
    IN  IF hits = {} THEN Zero ELSE fill_null((CHOOSE r \in hits : TRUE).values[c], Zero)

\* the answer values of the stored table that are none of 1 to 5
OtherAnswerValues ==
    {r.answer_value : r \in percentage_df} \ {"1.0", "2.0", "3.0", "4.0", "5.0"}

RECURSIVE SumStored(_, _, _, _)
SumStored(q, avs, m, c) ==
    IF avs = {} THEN Zero
    ELSE LET av == CHOOSE x \in avs : TRUE
         IN  FAdd(StoredValue(q, av, m, c), SumStored(q, avs \ {av}, m, c))

\* the answer values of a bucket
BucketAnswers(bucket) ==
    CASE bucket = "1-2" -> {"1.0", "2.0"}
      [] bucket = "3-4" -> {"3.0", "4.0"}
      [] bucket = "5" -> {"5.0"}
      [] bucket = "Other" -> OtherAnswerValues

\* C19: every row of the stored percentage table falls in exactly one bucket
\* (1 and 2 in "1-2" Motarbeidere, 3 and 4 in "3-4" Nøytrale, 5 in "5"
\* Engasjerte, anything else in "Other" Ukjent), and per question, metric type
\* and bucket each category column holds the sum of that column over the rows
\* of the bucket.
C19_BucketsSumCategoryColumns ==
    (pc = "done" /\ EniStored) =>
        /\ \A r \in percentage_df :
              Cardinality({x \in eni_percentage_df :
                              /\ x.question = r.question
                              /\ x.metric_type = r.metric_type
                              /\ r.answer_value \in BucketAnswers(x.grouped_answer_value)}) = 1
        /\ \A x \in eni_percentage_df :
              /\ x.grouped_answer_value \in {"1-2", "3-4", "5", "Other"}
              /\ x.label = (CASE x.grouped_answer_value = "1-2" -> "Motarbeidere"
                              [] x.grouped_answer_value = "3-4" -> "Nøytrale"
                              [] x.grouped_answer_value = "5" -> "Engasjerte"
                              [] x.grouped_answer_value = "Other" -> "Ukjent")
              /\ \A c \in Range(category_cols) :
                    x.values[c] = SumStored(x.question, BucketAnswers(x.grouped_answer_value),
                                            x.metric_type, c)

C19_Witness ==
    /\ pc = "done"
    /\ EniStored
    /\ \E x \in eni_percentage_df :
          /\ x.grouped_answer_value = "1-2" /\ x.metric_type = "count"
          /\ x.values["c1"] = Num(2)
    /\ \E x \in eni_percentage_df :
          /\ x.grouped_answer_value = "3-4" /\ x.metric_type = "percentage"
          /\ x.values["c1"] = <<1, 4>>
    /\ \E x \in eni_percentage_df : x.grouped_answer_value = "5" /\ x.values["c1"] = One
    /\ \E x \in eni_percentage_df : x.grouped_answer_value = "Other" /\ x.values["c1"] = Num(4)

(***************************************************************************)
(* percentages: the ranking branch (_calculate_ranking_metrics).           *)
(***************************************************************************)
\* the ranking columns of base question r1: the item placed first and second
ranking_columns == <<"r1M1", "r1M2">>
\* the value labels of the ranked items; 99 is the missing code
ranking_value_labels == (1 :> "tea" @@ 2 :> "coffee" @@ 99 :> "no answer")
\* the question table of a survey whose only question is the ranking r1
ranking_question_df(labels) ==
    << [base_question |-> "r1", question_type |-> "ranking",
        columns |-> ranking_columns, value_labels_info |-> labels] >>

\* lines 908-921: the rank is the number after base_question + "M" in the name
\* of the ranking column
RankOf(rank_column) ==
    CASE rank_column = "r1M1" -> 1
      [] rank_column = "r1M2" -> 2
      [] rank_column = "r2M1" -> 1

\* .cast(pl.Int64) of a non-negative float: the fraction is dropped
CastInt64(x) == Num(x[1] \div x[2])

\* lines 871-873: pl.col(category_col).is_not_null(); a flag of 0 is not null
RankingCategoryFiltered(rows, c) ==
    SelectSeq(rows, LAMBDA r : r.cat[c] \in {0, 1})

\* lines 881-886
total_respondents_count(filtered, uw) ==
    IF uw
    THEN FSum([i \in DOMAIN filtered |-> filtered[i].weight])
    ELSE Num(Len(filtered))

\* lines 896-921: one row per respondent and ranking column
MeltRanking(filtered, columns) ==
    Concat([k \in DOMAIN columns |->
              [i \in DOMAIN filtered |->
                 [rank |-> RankOf(columns[k]),
                  ranked_item_value |-> filtered[i].ans[columns[k]],
                  weight |-> filtered[i].weight]]])

\* lines 923-931: ranks above 0 whose item is a possible value and not missing
RankingRowsKept(melted, possible) ==
    SelectSeq(melted, LAMBDA m :
        /\ m.rank > 0
        /\ IsNotMissing(m.ranked_item_value)
        /\ \E v \in possible : IsValue(m.ranked_item_value, v))

\* lines 939-948
rank_score(m, uw) ==
    IF uw THEN FMul(FDiv(One, Num(m.rank)), m.weight) ELSE FDiv(One, Num(m.rank))

\* lines 950-1018: the aggregation of the rows of one ranked item
RankingAgg(item_rows, item, total, max_rank, uw) ==
    LET at(k) == SelectSeq(item_rows, LAMBDA m : m.rank = k)
        rank_count == [k \in 1..max_rank |-> Num(Len(at(k)))]
        rank_weighted ==
            [k \in 1..max_rank |->
                CastInt64(FSum([j \in DOMAIN at(k) |-> at(k)[j].weight]))]
    IN  [ranked_item |-> item,
         total_rank_count |-> Num(Len(item_rows)),
         total_score |-> FSum([j \in DOMAIN item_rows |-> rank_score(item_rows[j], uw)]),
         rank_count |-> rank_count,
         rank_weighted_sum |-> IF uw THEN rank_weighted ELSE <<>>,
         rank_percentage |->
            [k \in 1..max_rank |->
                FDiv(IF uw THEN rank_weighted[k] ELSE rank_count[k], total)],
         total_respondents |-> total]

\* .sort("ranked_item_value") of the items of a table
RECURSIVE SortedItems(_)
SortedItems(S) ==
    IF S = {} THEN <<>>
    ELSE LET least == CHOOSE x \in S : \A y \in S : x <= y
         IN  <<least>> \o SortedItems(S \ {least})

\* lines 864-1086: the table of one category column, empty when the category is
\* skipped; group_by("ranked_item_value") gives one row per item that occurs
RankingCategoryDf(rows, c, columns, possible, uw) ==
    LET filtered == RankingCategoryFiltered(rows, c)
        total == total_respondents_count(filtered, uw)
        melted == RankingRowsKept(MeltRanking(filtered, columns), possible)
        items == SortedItems({melted[j].ranked_item_value[1] : j \in DOMAIN melted})
    IN  IF total = Zero \/ melted = <<>>
        THEN <<>>
        ELSE [k \in DOMAIN items |->
                [category |-> c] @@
                RankingAgg(SelectSeq(melted, LAMBDA m : m.ranked_item_value = Num(items[k])),
                           items[k], total, Len(columns), uw)]

\* the respondent tables of the ranking survey
RankingTables ==
    [1..NResp -> [cat : [Range(category_cols) -> {0, 1}],
                  ans : [Range(ranking_columns) -> {Num(1), Num(2), Num(99), Null}],
                  weight : {Num(w) : w \in 1..MaxWeight}]]

InitRank ==
    /\ question_df \in {ranking_question_df(ranking_value_labels), ranking_question_df(<<>>)}
    /\ df \in RankingTables
    /\ \E w \in BOOLEAN, wc \in {<<"weight">>, Null} :
          /\ args = [weights |-> w]
          /\ config = [WEIGHT_COLUMN |-> wc, NAN_VALUES |-> (99 :> Null)]
    /\ pc = "idle"
    /\ PctIdle
    /\ IPFIdle
    /\ IdxIdle
    /\ EniIdle
    /\ RankIdle
    /\ CorIdle

\* lines 538-545 and 810-862: a ranking group; _calculate_ranking_metrics
\* returns [] at once when the group has no value labels or no possible values
PctRanking ==
    /\ pc = "pct_group"
    /\ group_i <= Len(question_groups)
    /\ question_groups[group_i].question_type = "ranking"
    /\ ranking_results' = <<>>
    /\ IF PossibleValues(question_groups[group_i].value_labels_info) = {}
       THEN pc' = "rank_return" /\ UNCHANGED cat_i
       ELSE pc' = "rank_category" /\ cat_i' = 1
    /\ UNCHANGED <<use_weights, group_i, results_for_this_group_list,
                   percentage_results_list, final_results_df, percentage_df>>
    /\ UNCHANGED <<df, ipfVars, inVars, idxVars, eniVars, ranked_df, corVars>>

\* lines 864-1086: the ranking metrics of one category column
RankCategory ==
    /\ pc = "rank_category"
    /\ cat_i <= Len(category_cols)
    /\ LET per_category_df ==
               RankingCategoryDf(df, category_cols[cat_i],
                                 question_groups[group_i].columns,
                                 PossibleValues(question_groups[group_i].value_labels_info),
                                 use_weights)
       IN  ranking_results' =
               IF per_category_df = <<>>
               THEN ranking_results
               ELSE Append(ranking_results, per_category_df)
    /\ cat_i' = cat_i + 1
    /\ UNCHANGED <<pc, use_weights, group_i, results_for_this_group_list,
                   percentage_results_list, final_results_df, percentage_df>>
    /\ UNCHANGED <<df, ipfVars, inVars, idxVars, eniVars, ranked_df, corVars>>

\* lines 1088 and 547: the list is returned and concatenated into
\* database.ranked_df; pl.concat raises on an empty list
RankStore ==
    /\ \/ pc = "rank_return"
       \/ pc = "rank_category" /\ cat_i > Len(category_cols)
    /\ IF ranking_results = <<>>
       THEN pc' = "raised" /\ UNCHANGED <<ranked_df, group_i>>
       ELSE /\ ranked_df' = Concat(ranking_results)
            /\ group_i' = group_i + 1
            /\ pc' = "pct_group"
    /\ UNCHANGED <<use_weights, cat_i, results_for_this_group_list,
                   percentage_results_list, final_results_df, percentage_df>>
    /\ UNCHANGED <<df, ipfVars, inVars, idxVars, eniVars, ranking_results, corVars>>

NextRank ==
    \/ PctBegin
    \/ PctRanking
    \/ RankCategory
    \/ RankStore
    \/ PctCombine
    \/ PctStore

SpecRank == InitRank /\ [][NextRank]_vars

(***************************************************************************)
(* Claims about the ranking metrics.                                       *)
(***************************************************************************)
\* the rows database.ranked_df reports for item v in category c
RankedRows(c, v) ==
    {j \in DOMAIN ranked_df : ranked_df[j].category = c /\ ranked_df[j].ranked_item = v}
\* the respondents of category c (flag 1)
Members(c) == {i \in DOMAIN df : df[i].cat[c] = 1}
\* every respondent of category c places item v first, and nowhere else
AlwaysFirst(c, v) ==
    /\ Members(c) # {}
    /\ \A i \in Members(c) :
          /\ df[i].ans["r1M1"] = Num(v)
          /\ df[i].ans["r1M2"] # Num(v)
\* no respondent of the table places item v at any rank
NeverRanked(v) ==
    \A i \in DOMAIN df : \A k \in DOMAIN ranking_columns :
        df[i].ans[ranking_columns[k]] # Num(v)

\* C14: an item that every respondent of a category places at rank 1 has, for
\* that category, a Total Score equal to the number of the category's
\* respondents, or to the sum of their weights in a weighted run.
C14_AlwaysFirstScoresRespondents ==
    ranked_df # <<>> =>
        \A k \in DOMAIN category_cols : \A v \in PossibleValues(ranking_value_labels) :
            LET c == category_cols[k]
            IN  AlwaysFirst(c, v) =>
                   /\ RankedRows(c, v) # {}
                   /\ \A j \in RankedRows(c, v) :
                         ranked_df[j].total_score =
                            IF use_weights
                            THEN SumOver([i \in DOMAIN df |-> df[i].weight], Members(c))
                            ELSE Num(Cardinality(Members(c)))

\* C15: an item of the possible values that no respondent ranks at any position
\* is reported for every category of database.ranked_df with Total Score 0 and
\* count 0 at every rank.
C15_NeverRankedItemReportedZero ==
    ranked_df # <<>> =>
        \A v \in PossibleValues(ranking_value_labels) :
            NeverRanked(v) =>
               \A c \in {ranked_df[j].category : j \in DOMAIN ranked_df} :
                  /\ RankedRows(c, v) # {}
                  /\ \A j \in RankedRows(c, v) :
                        /\ ranked_df[j].total_score = Zero
                        /\ \A r \in DOMAIN ranking_columns :
                              ranked_df[j].rank_count[r] = Zero

(***************************************************************************)
(* Claims about configuration gaps.                                        *)
(***************************************************************************)
\* a question group of the survey has no value labels
ValueLabelsMissing ==
    \E k \in DOMAIN question_groups : question_groups[k].value_labels_info = <<>>
\* no group has produced a percentage table
NoPercentageResult == percentage_results_list = <<>>

\* C16: when value labels are missing for a group (a ranking group included) or
\* no group produces a percentage result, percentages() completes without
\* raising.
C16_ConfigurationGapsDoNotRaise ==
    (ValueLabelsMissing \/ NoPercentageResult) => pc # "raised"

(***************************************************************************)
(* index(correlate=area): _correlate.                                      *)
(*                                                                         *)
(* A correlation coefficient r is held as <<sign of r, r * r>>, which is   *)
(* exact for rational data; NaN is <<0, NaN>>.                             *)
(***************************************************************************)
\* number of respondents in the table index(correlate=area) reads
NCorResp == 3

\* the float 0.0 of lines 1682 and 1686
ZeroCorrelation == <<0, Zero>>
NaNCorrelation == <<0, NaN>>

\* pl.corr(question, avg_col_name) over the pairs that have both values:
\* cov(x, y) / (std(x) * std(y)), which is 0/0 when a series is constant
Pearson(pairs) ==
    LET n == Num(Len(pairs))
        sx == FSum([j \in DOMAIN pairs |-> pairs[j][1]])
        sy == FSum([j \in DOMAIN pairs |-> pairs[j][2]])
        sxy == FSum([j \in DOMAIN pairs |-> FMul(pairs[j][1], pairs[j][2])])
        sxx == FSum([j \in DOMAIN pairs |-> FMul(pairs[j][1], pairs[j][1])])
        syy == FSum([j \in DOMAIN pairs |-> FMul(pairs[j][2], pairs[j][2])])
        cov == FAbsDiff(FMul(n, sxy), FMul(sx, sy))
        vx == FAbsDiff(FMul(n, sxx), FMul(sx, sx))
        vy == FAbsDiff(FMul(n, syy), FMul(sy, sy))
        sign == IF cov = Zero THEN 0
                ELSE IF FLess(FMul(sx, sy), FMul(n, sxy)) THEN 1 ELSE -1
    IN  IF vx = Zero \/ vy = Zero
        THEN NaNCorrelation
        ELSE <<sign, FDiv(FMul(cov, cov), FMul(vx, vy))>>

\* the coefficient kept as it is
Unclamped(corr_val) == corr_val

\* lines 1684-1686: "if not corr_val >= 0: corr_val = 0.0", true of a negative
\* coefficient and of NaN
Clamped(corr_val) ==
    IF corr_val = NaNCorrelation \/ corr_val[1] < 0 THEN ZeroCorrelation ELSE corr_val

\* lines 1534: the category columns that are columns of the table
category_cols_present(d) ==
    SelectSeq(category_cols, LAMBDA c : c \in DOMAIN d[1].cat)

\* lines 1671-1673 (and 1560-1562): the average and the question, without the
\* rows that hold a NaN; rows that hold a null stay
CorSubset(rows, area_questions, q) ==
    SelectSeq([i \in DOMAIN rows |-> <<rows[i].ans[q], MeanHorizontal(rows[i], area_questions)>>],
              LAMBDA p : ~IsNaN(p[1]) /\ ~IsNaN(p[2]))

\* the pairs pl.corr computes on: those without a null
ValidPairs(subset) == SelectSeq(subset, LAMBDA p : p[1] # Null /\ p[2] # Null)

\* lines 1621-1717: the rows of one category column; with fewer than two valid
\* pairs pl.corr has no value, and the row is either 0.0 (NaN result) or
\* dropped by the except clause (null result), depending on the library
CategoryCorrelations(clean, c, area, questions, undefined_reported) ==
    LET filtered == CategoryFiltered(clean, c)
        area_questions == AreaQuestions(area)[1]
        Row(q) ==
            LET subset == CorSubset(filtered, area_questions, q)
                valid == ValidPairs(subset)
            IN  IF Len(subset) <= 1 THEN <<>>
                ELSE IF Len(valid) < 2
                THEN IF undefined_reported
                     THEN <<[Category |-> c, Area |-> area, Question |-> q,
                             Correlation |-> ZeroCorrelation]>>
                     ELSE <<>>
                ELSE <<[Category |-> c, Area |-> area, Question |-> q,
                        Correlation |-> Clamped(Pearson(valid))]>>
    IN  IF filtered = <<>> \/ questions = <<>>
           \/ \E k \in DOMAIN area_questions : area_questions[k] \notin Questions
        THEN <<>>
        ELSE Concat([k \in DOMAIN questions |-> Row(questions[k])])

\* line 1553: the name the overall path gives the average column
overall_avg_alias(area) == <<area, "_avg">>
\* line 1555: the name it then selects
overall_avg_col_name(area) == <<area>>

\* lines 1549-1605: the rows of the overall path; the select of a column the
\* table does not have raises inside the try block and the question is skipped
OverallCorrelations(clean, area, questions) ==
    LET columns == {<<questions[k]>> : k \in DOMAIN questions} \cup {overall_avg_alias(area)}
        area_questions == AreaQuestions(area)[1]
        Row(q) ==
            LET subset == CorSubset(clean, area_questions, q)
            IN  IF overall_avg_col_name(area) \notin columns THEN <<>>
                ELSE IF Len(subset) <= 1 THEN <<>>
                ELSE <<[Category |-> "Overall", Area |-> area, Question |-> q,
                        Correlation |-> Pearson(ValidPairs(subset))]>>
    IN  Concat([k \in DOMAIN questions |-> Row(questions[k])])

\* the question table of the survey index(correlate=area) is run on
correlate_question_df ==
    << [base_question |-> "q1", question_type |-> "single_choice",
        columns |-> <<"q1">>,
        value_labels_info |-> (1 :> "low" @@ 2 :> "mid" @@ 5 :> "high" @@ 99 :> "no answer")],
       [base_question |-> "q2", question_type |-> "single_choice",
        columns |-> <<"q2">>,
        value_labels_info |-> (1 :> "low" @@ 2 :> "mid" @@ 5 :> "high" @@ 99 :> "no answer")] >>

\* the respondent tables index(correlate=area) is run on, with or without the
\* category columns
CorrelateTables ==
    UNION {[1..NCorResp -> [cat : [cats -> {0, 1}],
                             ans : [Questions -> {Num(1), Num(2), Num(5), Num(99)}],
                             weight : {One}]] : cats \in {Range(category_cols), {}}}

InitCor ==
    /\ question_df = correlate_question_df
    /\ df \in CorrelateTables
    /\ \E a \in {"A", "B"} : args = [weights |-> FALSE, scale |-> Null, correlate |-> a]
    /\ config = [WEIGHT_COLUMN |-> Null,
                 NAN_VALUES |-> (99 :> Null),
                 MINIMUM_COUNT |-> 1,
                 area_map |-> <<[area |-> "A", questions |-> <<"q1", "q2">>]>>]
    /\ pc = "idle"
    /\ IPFIdle
    /\ PctIdle
    /\ IdxIdle
    /\ EniIdle
    /\ RankIdle
    /\ CorIdle

\* lines 1142-1143 and 1493-1729: _correlate, with its early returns, the
\* overall path and the per-category path
Correlate ==
    /\ pc = "idx_correlate"
    /\ LET area == args.correlate
           next_pc == IF questions_present = <<>> THEN "done" ELSE "idx_category"
       IN  IF AreaQuestions(area) = Null \/ AreaQuestions(area) = <<(<<>>)>>
           THEN correlation_df' = <<>> /\ pc' = next_pc /\ UNCHANGED correlate_df
           ELSE IF category_cols_present(df_clean) = <<>>
           THEN IF Len(questions_present) < 2
                THEN correlation_df' = <<>> /\ pc' = next_pc /\ UNCHANGED correlate_df
                ELSE IF \E k \in DOMAIN AreaQuestions(area)[1] :
                           AreaQuestions(area)[1][k] \notin Questions
                THEN pc' = "raised" /\ UNCHANGED corVars
                ELSE /\ correlation_df' = OverallCorrelations(df_clean, area, questions_present)
                     /\ pc' = next_pc
                     /\ UNCHANGED correlate_df
           ELSE /\ \E undefined_reported \in BOOLEAN :
                      correlate_df' =
                          Concat([k \in DOMAIN category_cols_present(df_clean) |->
                                    CategoryCorrelations(df_clean,
                                        category_cols_present(df_clean)[k], area,
                                        questions_present, undefined_reported)])
                /\ pc' = next_pc
                /\ UNCHANGED correlation_df
    /\ UNCHANGED <<idxVars, pctVars>>
    /\ UNCHANGED <<df, ipfVars, inVars, rankVars, eniVars>>

NextCor ==
    \/ IdxBegin
    \/ Correlate
    \/ IdxCategory
    \/ IdxStore

SpecCor == InitCor /\ [][NextCor]_vars

(***************************************************************************)
(* Claims about _correlate.                                                *)
(***************************************************************************)
\* _correlate has returned
Correlated == pc \in {"idx_category", "done"}
\* an answer of the respondent table, null when it is the missing code
Observed(i, q) == IF IsMissing(df[i].ans[q]) THEN Null ELSE df[i].ans[q]
\* the area average of respondent i: the mean of the observed answers
ObservedAverage(i) ==
    MeanHorizontal([ans |-> [q \in Questions |-> Observed(i, q)]], <<"q1", "q2">>)
\* the valid paired observations of question q with the area average among the
\* respondents rs
PairsOf(rs, q) ==
    LET idx == SelectSeq([i \in DOMAIN df |-> i],
                         LAMBDA i : i \in rs /\ Observed(i, q) # Null
                                            /\ ObservedAverage(i) # Null)
    IN  [k \in DOMAIN idx |-> <<Observed(idx[k], q), ObservedAverage(idx[k])>>]
\* the respondents of category c
CategoryMembers(c) == {i \in DOMAIN df : c \in DOMAIN df[i].cat /\ df[i].cat[c] = 1}

\* C17: in the per-category path every reported correlation is at least 0: a
\* negative Pearson correlation of a question with the area average is
\* reported as 0 and a non-negative one is reported unchanged.
C17_PerCategoryClampedAtZero ==
    Correlated =>
        \A j \in DOMAIN correlate_df :
            LET row == correlate_df[j]
                pairs == PairsOf(CategoryMembers(row.Category), row.Question)
            IN  /\ row.Correlation # NaNCorrelation
                /\ row.Correlation[1] >= 0
                /\ Len(pairs) >= 2 =>
                      /\ Pearson(pairs)[1] < 0 => row.Correlation = ZeroCorrelation
                      /\ (Pearson(pairs) # NaNCorrelation /\ Pearson(pairs)[1] >= 0) =>
                            row.Correlation = Pearson(pairs)

\* a negative coefficient reported as 0 next to a positive one reported as it is
C17_Witness ==
    /\ Correlated
    /\ \E j \in DOMAIN correlate_df :
          /\ Pearson(PairsOf(CategoryMembers("c1"), correlate_df[j].Question))[1] < 0
          /\ correlate_df[j].Correlation = ZeroCorrelation
    /\ \E j \in DOMAIN correlate_df :
          /\ correlate_df[j].Correlation[1] > 0
          /\ correlate_df[j].Correlation[2] # One

\* the overall path has been taken for an area of area_map
OverallPath ==
    /\ Correlated
    /\ DOMAIN df[1].cat = {}
    /\ AreaQuestions(args.correlate) # Null

\* C18: without category columns _correlate reports, for every question with at
\* least 2 valid paired observations, a row tagged "Overall" that holds the
\* Pearson correlation with its sign.
C18_OverallRowsKeepSign ==
    OverallPath =>
        \A q \in Questions :
            Len(PairsOf(DOMAIN df, q)) >= 2 =>
                \E j \in DOMAIN correlation_df :
                    /\ correlation_df[j].Category = "Overall"
                    /\ correlation_df[j].Question = q
                    /\ correlation_df[j].Correlation = Pearson(PairsOf(DOMAIN df, q))

(***************************************************************************)
(* Sequences of percentages(), index() and eni() calls on one database.    *)
(***************************************************************************)
\* the respondent tables the sequences of calls are run on
CallTables ==
    [1..NResp -> [cat : [Range(category_cols) -> {0, 1}],
                  ans : [Questions -> {Num(1), Num(2), Num(99)}],
                  weight : {Num(w) : w \in 1..MaxWeight}]]

\* the arguments of the calls of a sequence
CallArgs ==
    [weights : BOOLEAN, scale : {Null}, correlate : {"", "A"}, area : {"A", "B"}]

InitCalls ==
    /\ question_df = survey_question_df
    /\ df \in CallTables
    /\ args \in CallArgs
    /\ \E wc \in {<<"weight">>, Null} :
          config = [WEIGHT_COLUMN |-> wc,
                    NAN_VALUES |-> (99 :> Null),
                    MINIMUM_COUNT |-> 1,
                    area_map |-> <<[area |-> "A", questions |-> <<"q1">>]>>]
    /\ pc = "idle"
    /\ IPFIdle
    /\ PctIdle
    /\ IdxIdle
    /\ EniIdle
    /\ RankIdle
    /\ CorIdle

\* lines 808, 1151, 1490 and 1884: the method returns, or its exception leaves
\* it; the locals are gone, the tables stored in the database stay
Return ==
    /\ pc \in {"done", "raised"}
    /\ pc' = "idle"
    /\ use_weights' = FALSE
    /\ group_i' = 1
    /\ cat_i' = 1
    /\ results_for_this_group_list' = <<>>
    /\ percentage_results_list' = <<>>
    /\ final_results_df' = Null
    /\ df_clean' = <<>>
    /\ category_i' = 1
    /\ results_list' = <<>>
    /\ UNCHANGED <<df, percentage_df, index_df>>
    /\ UNCHANGED <<ipfVars, inVars, rankVars, corVars, eniVars>>

NextCalls ==
    \/ NextPct
    \/ NextIdx
    \/ Correlate
    \/ NextEni
    \/ Return

SpecCalls == InitCalls /\ [][NextCalls]_vars

(***************************************************************************)
(* Claims about the respondent table.                                      *)
(***************************************************************************)
\* C20: percentages(), index() with or without correlate, and eni() leave
\* database.df as it was: no step of any sequence of these calls changes a
\* column or a value of it; flags and replaced codes go to the private copy.
C20_RespondentTableUnchanged == [][df' = df]_vars

\* index() or eni() is running on a copy that carries the flag column and a
\* replaced missing code, after percentages(), index() and eni() have each
\* stored a table
C20_Witness ==
    /\ percentage_df # NoTable
    /\ index_df # Null
    /\ eni_df # Null
    /\ df_clean # <<>>
    /\ \E i \in DOMAIN df :
          /\ df[i].ans["q1"] = Num(99)
          /\ df_clean[i].ans["q1"] = Null
          /\ df_clean[i].was_nan_value_code["q1"] = One

(***************************************************************************)
(* Claims about the respondents the ranking metrics are computed from.     *)
(***************************************************************************)
\* the respondents among rs that place item v at rank r
PlacedAt(rs, v, r) == {i \in rs : df[i].ans[ranking_columns[r]] = Num(v)}
\* the total score of item v over the respondents rs: 1/rank per placement,
\* times the respondent's weight in a weighted run
ScoreOver(rs, v, uw) ==
    FSum([r \in DOMAIN ranking_columns |->
            FMul(FDiv(One, Num(r)),
                 IF uw
                 THEN SumOver([i \in DOMAIN df |-> df[i].weight], PlacedAt(rs, v, r))
                 ELSE Num(Cardinality(PlacedAt(rs, v, r))))])

\* C21: the Total Respondents of a category, its rank counts and its scores are
\* computed only from the respondents whose flag for the category is 1.
C21_RankingOnlyFlaggedRespondents ==
    \A j \in DOMAIN ranked_df :
        LET row == ranked_df[j]
            members == Members(row.category)
        IN  /\ row.total_respondents =
                  IF use_weights
                  THEN SumOver([i \in DOMAIN df |-> df[i].weight], members)
                  ELSE Num(Cardinality(members))
            /\ \A r \in DOMAIN ranking_columns :
                  row.rank_count[r] = Num(Cardinality(PlacedAt(members, row.ranked_item, r)))
            /\ row.total_score = ScoreOver(members, row.ranked_item, use_weights)

(***************************************************************************)
(* Claims about the area index.                                            *)
(***************************************************************************)
\* the answers of the respondents of category c to the questions of area a that
\* are neither null nor a missing code, each with the respondent's weight
PooledAnswers(c, a) ==
    LET qs == AreaQuestions(a)[1]
    IN  Concat([k \in DOMAIN qs |->
            LET sel == SelectSeq(Flagged(c), LAMBDA r : IsNotMissing(r.ans[qs[k]]))
            IN  [i \in DOMAIN sel |-> [value |-> sel[i].ans[qs[k]], weight |-> sel[i].weight]]])
\* their (weighted, if requested) mean
PooledMean(c, a) ==
    LET p == PooledAnswers(c, a)
    IN  IF use_weights
        THEN FDiv(FSum([i \in DOMAIN p |-> FMul(p[i].value, p[i].weight)]),
                  FSum([i \in DOMAIN p |-> p[i].weight]))
        ELSE FDiv(FSum([i \in DOMAIN p |-> p[i].value]), Num(Len(p)))
\* the pooled mean is defined: there is an answer, of positive weight in a
\* weighted run
Pooled(c, a) ==
    /\ PooledAnswers(c, a) # <<>>
    /\ use_weights => \E i \in DOMAIN PooledAnswers(c, a) : PooledAnswers(c, a)[i].weight # Zero

\* C22: without scaling, the area index of an area for a category is the
\* (weighted, if requested) mean pooled over all non-missing answers of the
\* category's respondents to the questions of the area.
C22_AreaIndexIsPooledMean ==
    (pc = "done" /\ args.scale = Null /\ index_df # Null) =>
        \A c \in DOMAIN index_df : \A a \in DOMAIN index_df[c].areas :
            (a # Null /\ Pooled(c, a[1])) =>
                index_df[c].areas[a] = PooledMean(c, a[1])

\* C23: a question has a correlation for a category only if at least 2
\* respondents of the category have a value for both the question and the area
\* average; with fewer it is skipped without an exception, and the questions
\* that do have 2 such respondents still get their row.
C23_CorrelationNeedsTwoPairs ==
    /\ pc # "raised"
    /\ (Correlated /\ category_cols_present(df) # <<>> /\ AreaQuestions(args.correlate) # Null) =>
          \A k \in DOMAIN category_cols : \A q \in Questions :
              LET c == category_cols[k]
                  reported == \E j \in DOMAIN correlate_df :
                                  /\ correlate_df[j].Category = c
                                  /\ correlate_df[j].Question = q
              IN  reported <=> Len(PairsOf(CategoryMembers(c), q)) >= 2

(***************************************************************************)
(* index(scale=(target_min, target_max)).                                  *)
(***************************************************************************)
\* the question table of a survey whose question q1 has one non-missing value
\* in its codebook
degenerate_question_df ==
    << [base_question |-> "q1", question_type |-> "single_choice",
        columns |-> <<"q1">>,
        value_labels_info |-> (1 :> "only" @@ 99 :> "no answer")] >>

\* the scale arguments of the scaled runs
ScaleRanges == {<<0, 10>>, <<1, 5>>}

InitScale ==
    /\ question_df \in {survey_question_df, degenerate_question_df}
    /\ df \in RespondentTables
    /\ \E w \in BOOLEAN, s \in ScaleRanges :
          args = [weights |-> w, scale |-> s, correlate |-> ""]
    /\ \E wc \in {<<"weight">>, Null} :
          config = [WEIGHT_COLUMN |-> wc,
                    NAN_VALUES |-> (99 :> Null),
                    MINIMUM_COUNT |-> 1,
                    area_map |-> <<[area |-> "A", questions |-> <<"q1">>]>>]
    /\ pc = "idle"
    /\ IPFIdle
    /\ PctIdle
    /\ IdxIdle
    /\ EniIdle
    /\ RankIdle
    /\ CorIdle

SpecScale == InitScale /\ [][NextIdx]_vars

\* the non-missing numeric values of the codebook of q
CodebookValues(q) == {v \in DOMAIN variable_value_labels(q) : v \notin nan_values_list}
CodebookMin(q) == CHOOSE v \in CodebookValues(q) : \A w \in CodebookValues(q) : v <= w
CodebookMax(q) == CHOOSE v \in CodebookValues(q) : \A w \in CodebookValues(q) : v >= w
\* (v - lo) * (target_max - target_min) / (hi - lo) + target_min, for v >= lo
Rescaled(v, q) ==
    IF CodebookMin(q) < CodebookMax(q)
    THEN FAdd(FDiv(FMul(FSub(v, Num(CodebookMin(q))), Num(args.scale[2] - args.scale[1])),
                   Num(CodebookMax(q) - CodebookMin(q))),
              Num(args.scale[1]))
    ELSE v
\* every respondent of category c has answered q, and their weights are not all
\* 0 in a weighted run
AllAnswered(c, q) ==
    /\ Flagged(c) # <<>>
    /\ \A i \in DOMAIN Flagged(c) : IsNotMissing(Flagged(c)[i].ans[q])
    /\ use_weights => \E i \in DOMAIN Flagged(c) : Flagged(c)[i].weight # Zero
\* the (weighted, if requested) mean of the rescaled answers of category c to q
MeanOfRescaled(c, q) ==
    LET sel == Flagged(c)
    IN  IF use_weights
        THEN FDiv(FSum([i \in DOMAIN sel |-> FMul(Rescaled(sel[i].ans[q], q), sel[i].weight)]),
                  FSum([i \in DOMAIN sel |-> sel[i].weight]))
        ELSE FDiv(FSum([i \in DOMAIN sel |-> Rescaled(sel[i].ans[q], q)]), Num(Len(sel)))

\* C24: with scale = (target_min, target_max) every answer v of a question whose
\* codebook has lo < hi enters the average as
\* (v - lo) * (target_max - target_min) / (hi - lo) + target_min, and the
\* answers of a question with lo = hi enter it unchanged.
C24_AnswersRescaledBeforeAveraging ==
    pc = "done" =>
        \A c \in Range(category_cols), q \in Questions :
            AllAnswered(c, q) => ReportedIndex(c, q) = MeanOfRescaled(c, q)

\* a scaled run to (1, 5) of a question with codebook values 1 and 2: the
\* category's answers are 1 and 2 and its index is the middle of the target range
C24_Witness ==
    /\ pc = "done"
    /\ args.scale = <<1, 5>>
    /\ ~use_weights
    /\ CodebookMin("q1") = 1 /\ CodebookMax("q1") = 2
    /\ Len(Flagged("c1")) = 2
    /\ \E i \in DOMAIN Flagged("c1") : Flagged("c1")[i].ans["q1"] = Num(1)
    /\ \E i \in DOMAIN Flagged("c1") : Flagged("c1")[i].ans["q1"] = Num(2)
    /\ ReportedIndex("c1", "q1") = Num(3)

(***************************************************************************)
(* Sequences of percentages() and eni() calls with changing arguments.     *)
(***************************************************************************)
\* the arguments of a percentages() or eni() call
PctEniArgs == [weights : BOOLEAN, area : {"A", "B"}]

InitPctEni ==
    /\ question_df = survey_question_df
    /\ df \in CallTables
    /\ args \in PctEniArgs
    /\ \E wc \in {<<"weight">>, Null} :
          config = [WEIGHT_COLUMN |-> wc,
                    NAN_VALUES |-> (99 :> Null),
                    area_map |-> <<[area |-> "A", questions |-> <<"q1">>]>>]
    /\ pc = "idle"
    /\ IPFIdle
    /\ PctIdle
    /\ IdxIdle
    /\ EniIdle
    /\ RankIdle
    /\ CorIdle

\* lines 808 and 1884: the method returns, or its exception leaves it, and the
\* next call is made with arguments of its own
ReturnAndCallAgain ==
    /\ pc \in {"done", "raised"}
    /\ pc' = "idle"
    /\ args' \in PctEniArgs
    /\ use_weights' = FALSE
    /\ group_i' = 1
    /\ cat_i' = 1
    /\ results_for_this_group_list' = <<>>
    /\ percentage_results_list' = <<>>
    /\ final_results_df' = Null
    /\ df_clean' = <<>>
    /\ category_i' = 1
    /\ results_list' = <<>>
    /\ UNCHANGED <<df, percentage_df, index_df, config, question_df>>
    /\ UNCHANGED <<ipfVars, rankVars, corVars, eniVars>>

NextPctEni ==
    \/ NextPct
    \/ NextEni
    \/ ReturnAndCallAgain

SpecPctEni == InitPctEni /\ [][NextPctEni]_vars

\* C25: whenever eni() stores its regroup table, the table is the re-bucketing
\* of the percentage table the most recent percentages() call stored, and
\* whenever percentages() stores its table, the stored table is the table of
\* that call alone.
C25_EniRegroupsLatestPercentages ==
    [][/\ eni_percentage_df' # eni_percentage_df =>
             eni_percentage_df' = EniPercentage(percentage_df)
       /\ percentage_df' # percentage_df =>
             percentage_df' = Labelled(final_results_df)]_vars

\* percentages() has stored a table that differs from the one eni() regrouped
\* before: the earlier table was overwritten
C25_Witness ==
    /\ pc = "done"
    /\ eni_percentage_df # NoTable
    /\ percentage_df # NoTable
    /\ eni_percentage_df # EniPercentage(percentage_df)

\* the population target of category c of dimension d
PopulationTarget(d, c) == CellSum(target_df, {cell \in Cells : cell[d] = c})

\* the sum of the current weights of the rows whose dimension d is c
WeightedTotal(d, c) ==
    FSum(LET sel == SelectSeq(weight_df, LAMBDA r : r.mapped[d] = c)
         IN  [j \in DOMAIN sel |-> sel[j].weight])

\* C26: immediately after the sweep of dimension d, every category of d whose
\* weighted total before the sweep was positive has a weighted total equal to
\* its population target.
C26_SweepMeetsTargets ==
    (pc \in {"sweep", "check"} /\ adj_df.column # 0) =>
        \A i \in DOMAIN adj_df.rows :
            LET a == adj_df.rows[i]
            IN  (IsFinite(a.weight) /\ a.weight # Zero) =>
                    WeightedTotal(adj_df.column, a.key)
                        = Num(PopulationTarget(adj_df.column, a.key))

\* the dataset d with the weight column replaced by w
Reweighted(d, w) == [i \in DOMAIN d |-> [d[i] EXCEPT !.weight = w[i]]]

\* the weight columns the respondents can have
WeightColumns == [1..NResp -> {Num(w) : w \in 1..MaxWeight}]

\* the class proportions of the area's questions computed without weights on
\* the dataset d
UnweightedEniTable(d, area) ==
    LET clean == DfClean(d)
        cs == SelectSeq(category_cols, LAMBDA c : CategoryFiltered(clean, c) # <<>>)
    IN  EniPivot([k \in DOMAIN cs |->
                    EniProportions(EniRows(CategoryFiltered(clean, cs[k]),
                                           eni_questions_present(area)), cs[k])])

\* eni(area, weights=False) produces a table: the area has questions in the
\* data and some category has members
EniHasTable ==
    /\ AreaQuestions(args.area) # Null
    /\ eni_questions_present(args.area) # <<>>
    /\ \E c \in Range(category_cols) : Flagged(c) # <<>>

\* C27: with a weight column configured, a finished eni(area, weights=True)
\* has produced the table that eni(area, weights=False) produces on the same
\* respondents, whatever values the weight column holds.
C27_ProportionsIgnoreWeights ==
    (config.WEIGHT_COLUMN # Null /\ args.weights /\ pc \in {"done", "raised"}
     /\ EniHasTable) =>
        /\ EniStored
        /\ \A w \in WeightColumns :
              eni_df = UnweightedEniTable(Reweighted(df, w), args.area)

\* a weighted eni() has stored the table of a category whose two members
\* carry different weights and fall into different classes
C27_Witness ==
    /\ config.WEIGHT_COLUMN # Null
    /\ args.weights
    /\ pc = "done"
    /\ EniStored
    /\ Len(Flagged("c1")) = 2
    /\ df[1].weight # df[2].weight
    /\ Cardinality(DOMAIN eni_df["c1"]) = 2

\* C28: a call with weights=True on a configuration without a weight column
\* runs unweighted and does not raise.
C28_WeightsWithoutColumnFallBack ==
    (args # Null /\ args.weights /\ config.WEIGHT_COLUMN = Null) =>
        /\ pc # "raised"
        /\ ~use_weights

(***************************************************************************)
(* percentages on a catalog with two ranking questions.                    *)
(***************************************************************************)
\* the question table of a survey with the ranking questions r1 and r2, in
\* the two orders group_by can list them
two_ranking_question_dfs ==
    LET r1 == [base_question |-> "r1", question_type |-> "ranking",
               columns |-> ranking_columns, value_labels_info |-> ranking_value_labels]
        r2 == [base_question |-> "r2", question_type |-> "ranking",
               columns |-> <<"r2M1">>, value_labels_info |-> ranking_value_labels]
    IN  {<<r1, r2>>, <<r2, r1>>}

\* the respondent tables of the survey with two ranking questions
TwoRankingTables ==
    [1..NResp -> [cat : [Range(category_cols) -> {0, 1}],
                  ans : [{"r1M1", "r1M2", "r2M1"} -> {Num(1), Num(2)}],
                  weight : {Num(w) : w \in 1..MaxWeight}]]

InitTwoRank ==
    /\ question_df \in two_ranking_question_dfs
    /\ df \in TwoRankingTables
    /\ \E w \in BOOLEAN :
          /\ args = [weights |-> w]
          /\ config = [WEIGHT_COLUMN |-> <<"weight">>, NAN_VALUES |-> (99 :> Null)]
    /\ pc = "idle"
    /\ PctIdle
    /\ IPFIdle
    /\ IdxIdle
    /\ EniIdle
    /\ RankIdle
    /\ CorIdle

SpecTwoRank == InitTwoRank /\ [][NextRank]_vars

\* the ranking metrics of the question of group g: the rows of its tables of
\* all category columns
RankingMetricsOf(g) ==
    UNION {Range(RankingCategoryDf(df, c, question_groups[g].columns,
                                   PossibleValues(question_groups[g].value_labels_info),
                                   use_weights)) : c \in Range(category_cols)}

\* C29: when percentages() has gone through a catalog with more than one
\* ranking question, the stored ranking table holds the metrics of every one
\* of them.
C29_RankedDfHoldsEveryRankingQuestion ==
    (pc \in {"pct_store", "done", "raised"} /\ group_i > Len(question_groups)) =>
        \A g \in DOMAIN question_groups :
            question_groups[g].question_type = "ranking" =>
                RankingMetricsOf(g) \subseteq Range(ranked_df)

\* the rows of the respondent table whose flag of category column c is k
GroupOf(c, k) == SelectSeq(df, LAMBDA x : x.cat[c] = k)

\* the aggregated row r is the aggregation of the rows of group k of its
\* category column: their answers to q give its counts per value and its
\* count of missing codes
AggregatesGroup(r, q, k) ==
    /\ GroupOf(r.Category, k) # <<>>
    /\ \A v \in Possible(q) :
          r.metrics[<<q, ValueStr(v), "count">>] =
              Num(Len(SelectSeq(GroupOf(r.Category, k), LAMBDA x : x.ans[q] = Num(v))))
    /\ r.metrics[<<q, "nan", "count">>] =
          Num(Len(SelectSeq(GroupOf(r.Category, k), LAMBDA x : IsMissing(x.ans[q]))))

\* the answers to q in group k of category column c that are neither null nor
\* a missing code
AnswersOfGroup(c, q, k) ==
    SelectSeq([j \in DOMAIN GroupOf(c, k) |-> GroupOf(c, k)[j].ans[q]],
              LAMBDA cell : cell # Null /\ ~IsMissing(cell))

\* C30: in an unweighted run, for every answer column and every aggregated
\* group of rows, the value-percentages over the possible values sum to at
\* most 1, and to exactly 1 if and only if the group has a non-missing answer
\* and each of its non-null, non-missing answers is a possible value.
C30_ValuePercentagesSumAtMostOne ==
    ~use_weights =>
        \A i \in DOMAIN AggRows, q \in Questions :
            \E k \in {0, 1} :
                /\ AggregatesGroup(AggRows[i], q, k)
                /\ FLeq(ValuePercentageSum(AggRows[i], q), One)
                /\ (ValuePercentageSum(AggRows[i], q) = One)
                      <=> /\ AnswersOfGroup(AggRows[i].Category, q, k) # <<>>
                          /\ \A j \in DOMAIN AnswersOfGroup(AggRows[i].Category, q, k) :
                                \E v \in Possible(q) :
                                    AnswersOfGroup(AggRows[i].Category, q, k)[j] = Num(v)

\* an unweighted run has aggregated a group of two respondents, one with a
\* valid answer and one with a missing code, whose value-percentages sum to 1
C30_Witness ==
    /\ ~use_weights
    /\ pc = "done"
    /\ \E i \in DOMAIN AggRows, q \in Questions :
          /\ ValuePercentageSum(AggRows[i], q) = One
          /\ AggRows[i].metrics[<<q, "nan", "count">>] = One
          /\ AggRows[i].metrics[<<q, "total", "count">>] = One
====
